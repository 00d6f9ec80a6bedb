# A TLA+ model of the membership system

The repository is the back office and the member app of a Takaful society:
people apply for membership and pay fees, members and customers hold accounts,
officers capture what moves money, other officers review and post it, and a
PostgreSQL schema keeps the ledger. The modules here model the parts in which a
mistake costs somebody money, a membership or their data, as they are written
in `src/src/lib` (TypeScript) and `src/migrations` (PL/pgSQL, triggers and
constraints). TLC checks them on small instances; 24 of the 38
properties that are about safety are also proved, for instances of any size.

Paths below are relative to `src/src/lib` unless they start with `migrations/`
or `docs/`.

## 1. The system

### Components

| Component | State it keeps | Operations | Must hold |
| --- | --- | --- | --- |
| **Posting engine** (migrations 0064 to 0099; `ledger/ledger.ts`) | `transaction`, `account_entry`, `account_balance`, account and holder statuses | `post_transaction()`; inserts, updates and deletes under constraints and `guard_transaction` | entries and cached balance agree; what posted is final; no withdrawal or transfer breaks a floor |
| **Routing and review** (`ledger/routing.ts`, `review.ts`, `deposits.ts`, `withdrawals.ts`, `transfers.ts`) | a transaction's chain, step and status, the transfer row, the audit trail | capture, correct, forward, return, reject, post | three people decide; the transfer reads what its debit leg reads; both legs post or neither, by one amount |
| **Reversals** (`ledger/reversals.ts`) | reversal transactions | reverse | a reversal moves back what it names; both legs of a transfer together |
| **Exits** (`ledger/closures.ts`, `resignations.ts`, `demises.ts`, `claimants.ts`) | exits, accounts put into `closing`, claimants | start, submit, review, post, cancel | a closing account has its exit; a closed one is empty; death leaves no draft |
| **Fees** (`payments/`, `cash/sessions.ts`) | payments, refunds, receipt numbers, fee transfers, drawers | take, settle by transfer, carry, refund, void, open and close a drawer | one receipt stands; every number is accounted for; never more back than was taken |
| **Documents** (`documents/`) | versions, the file store | begin, send, commit, verify, remove | one live version, whose file is its own |
| **Applications** (`applications/workflow.ts`) | status, steps passed, sign-offs, who did what | submit, review, sign off, decide, return, reopen | nobody admitted short of the quorum; people who may not both act did not |
| **Admission** (`applications/capture.ts`, `members/create.ts`) | applications of one person, members, customers, accounts | start for somebody new, a customer, a member; approve | one application an NIC; one account a type |
| **Members** (`members/`, `member/profile.ts`) | details and requests to change them, guardians, dormancy | submit, review, correct, sweep | a correction survives an older request |
| **Identity** (`member/identity.ts`, `member/otp.ts`, `notifications/push.ts`) | challenges, sessions, devices | ask, enter, refresh, sign out, register | a code opens one session; a phone signed out is silent |
| **Access** (`admin/roles.ts`, `access/`, `auth/`) | staff, roles, grants, sessions | sign in, grant, revoke, request | what is revoked counts from the next request |
| **Api** (`api/`, `member/transactions.ts`) | idempotency keys, counted windows | record, count | a request is recorded once; a ceiling holds |
| **Feed** (`payments/payments.ts`) | financial events | emit, read on | a reader sees every event |
| **Configuration** (`config/`) | reference tables, segregation rules, the cache of each instance | edit, import a sheet, read, clear | one reads what one wrote |
| **Showcase** (`config/outlets.ts`, `promotions.ts`) | outlets, promotions | edit, announce | members hear of a partner once |
| **Migration** (`migration/`) | batches, rows, the records, accounts, applications and receipts they wrote | check a file, upload, import, cancel, set balances, restore history | withdrawing an import takes nothing of others' |
| **Jobs** (`jobs/`) | `job_run`, cursor, advisory lock | start, chunk, checkpoint, stop, resume | no row missed, one run open, every run ends |
| **Statements** (`ledger/member-statement.ts`) | runs, items, checkpoint | queue, send, record, resume | every holder dealt with; a repeat costs one |
| **Retention** (`retention/`, deletions of `documents.ts` and `capture.ts`) | periods, rows, scans in the drive | dispose, redact, delete a draft | papers go before the rows that name them |
| **Notifications** (`notifications/notify.ts`, `retry.ts`) | the outbox | send, mark, retry, abandon | nothing recorded is forgotten |

Reports, search, timelines, pages and client scripts keep no state of their own
and are not modelled.

### How they interact

* A handler (an HTTP route) reads with the shared pool, refuses what it must,
  then opens one database transaction, writes, and commits. Two requests share
  nothing but the database, and anything may commit between a handler's reads
  and its writes.
* Everything that moves money calls `post_transaction()` inside that database
  transaction. It locks the transaction's row, checks again what it must under
  the lock, and writes entries, the balance cache and the statuses an exit
  leaves. The application role has no other way to an entry or a balance.
* Deposits, withdrawals, transfers and exits share one route: the bands name a
  workflow for the amount, its enabled steps are walked by `reviewTransaction`,
  and `postApprovedTransaction` pays out. Segregation of duties is looked up in
  the audit trail.
* An application is in the hands of its fees, its papers and its workflow, which
  meet in its status; its approval makes the member and the accounts.
* Outside the database are the drive, the mail and SMS relays, and the push
  service; each may fail, be slow, or take what it was given and not say so.
* Jobs run unattended, on one container at a time, under a session's advisory
  lock; a container may be told to stop, die, or lose its session and go on.

### What is hard

Reads before the transaction that writes (most handlers); a status written
without the status it was read at; two officers, or one twice, on one
transaction; a configuration that changes under transactions in flight;
sequences of legal calls (returned, corrected across a band, reviewed; reversals
of reversals; exits cancelled after a death); a file store and relays that are
no part of a transaction; requests that die between two commits; jobs that stop
between a chunk's work and its checkpoint. `PROJECT.json` lists each hazard at
its line, with the properties that would catch it.

## 2. The modules

| Module | Is | Extends |
| --- | --- | --- |
| `Posting` | the ledger's tables and `post_transaction()` | |
| `Ledger` | every statement the database lets through, by anyone, in any order | `Posting` |
| `Books` | the abstract specification: what a reader of the ledger may rely on | |
| `Review` | capture, routing, correction, review, posting, reversal | `Posting` |
| `Exits` | closures, resignations, demised claims, before and around Review's handlers | `Review` |
| `Intake` | what fees, papers and workflow of an application share | |
| `Fees`, `Documents` | payments and receipts; the papers | `Intake` |
| `Applications` | the workflow, with its fees and papers | `Fees`, `Documents` |
| `Admission` | one person's applications, and what their approval makes | |
| `Members`, `Identity`, `Access`, `Api`, `Feed`, `Configuration`, `Showcase`, `Migration` | one component each | |
| `Jobs`, `Statements`, `Retention`, `Notifications` | what runs unattended | |
| `LedgerProofs`, `ReviewProofs`, `IntakeProofs`, `DocumentsProofs`, `FrontProofs`, `OfficeProofs`, `ServicesProofs` | theorems, section 4 | |
| `Sums` | what those proofs need of the sums of `Functions` and `FiniteSetsExt` | |
| `MCLedger`, `MCReview`, `MCExits`, `MCIntake`, `MCApplications`, `MCOffice`, `MCFront`, `MCServices` | instances for TLC, section 3 | |

**A handler is two actions or more.** `Begin...` is what it reads and refuses
before its database transaction; what it keeps in variables is left on the
request's record (`desk`, `counter`, `caller`, `attempt`, ...). `Commit...` is the
database transaction: it looks again only at what the code looks at again - a
row it locks, a unique index, a trigger, `post_transaction`'s own checks. Where a
handler makes two commits, or waits for the drive or a relay, it has an action for
each. A request may fail or die at any point: what it had committed stays.

**Posting.** A row of `tx` is a row of the transaction table with the columns the
rules read. `account_entry` and the event's `balance_after` are one record of
`entry`. `PostAll(S, rows, accts)` posts `S` as one database transaction, from
the tables as the statements before the call left them, so that a handler that
updates a row and posts it is one action. **Ledger** takes the weakest view of
the callers: rows of any kind are inserted, updated, deleted and posted and
accounts' statuses set, in any order, as far as grants, constraints and triggers
allow. What holds there holds whatever the application does. **Books** knows only
posted transactions, journals and cached balances: a step posts new transactions,
and each journal stays or grows by an entry of one of them.

| `Review` and `Exits` | Code |
| --- | --- |
| `BeginCapture`, `CommitCapture` | `recordDeposit`, `recordWithdrawal`, `recordTransfer`, `submitTransaction`, the app's drafts |
| `BeginResubmit`, `CommitResubmit` | `resubmitDeposit`, `resubmitWithdrawal`, `resubmitTransfer` |
| `BeginReview`, `CommitReview`; `BeginPost`, `CommitPost` | `reviewTransaction`; `postApprovedTransaction` |
| `BeginReverse`, `CommitReverse` | `reverseTransaction` |
| `BeginStart` ... `CommitCancel` | `start`, `submit` and `cancel` of the three exits |

**Fees** draws its receipt number in a commit of its own, so that numbers are
lost, given up and issued out of step with payments; amounts are sets of fee
components, one unit each. **Documents** has the drive between two requests: a
version is `pending` until its file is found there by name and size, and the
drive renames a file whose name is taken. **Applications** composes both with
the chain, and a Board member's decision is three actions: the reads, the count
of the sign-offs its transaction sees, and its commit.

**Jobs.** A container is `inst[i]`: where it is in `runJob`, whether it was told
to stop, and what it keeps in memory. The lock and `job_run` are on one session,
the sweep's work on the pool's, so a container whose session is lost (`Sever`)
goes on working until it next writes `job_run` (`FindLost`), while another takes
the lock and resumes. `swept` and `due` are history variables.

Definitions marked "Mutant" are wrong versions of the definition that follows
them; no specification uses them. Each property of a passing run has one under
which it fails (`PROJECT.json`, "mutants"), which shows that the property can
fail for a mistake in that very code.

## 3. The runs

| Run | Module | Checks | Shows |
| --- | --- | --- | --- |
| `ledger` | `Ledger` | `NoDrift`, `RunningBalance`, `FloorHeld`, `ReversalUndoes`, `PostedIsFinal`, `ImplementsBooks` | the ledger under every kind of transaction |
| `transfer_review` | `Review` | `ThreePeople`, `TransferReadsDebitLeg`, `LegsAgree`, `BothLegsOrNeither` | a transfer on a chain of two steps, two requests at once |
| `paper_review` | `Review` | `ReversedTogether` | deposits, withdrawals and a transfer on two chains, and racing reversals |
| `exits` | `Exits` | `ClosingForAnExit`, `NothingLeftOnClosed`, `NoDraftOutlives` | crossing exits of one holder around a deposit |
| `intake` | `Fees`, `Documents` | `OneLivePayment`, `ReceiptsAccounted`, `RefundsWithinTaken`, `TransfersPayOnce`, `OneLiveVersion`, `LiveFileIsItsOwn` | the till and the filing cabinet of an application |
| `applications` | `Applications` | `AdmittedByQuorum`, `PeopleKeptApart` | the chain with stale requests, sign-offs and steps switched |
| `office` | `Migration`, `Members`, `Configuration`, `Access` | `OthersKept`, `CorrectionsSurvive`, `ReadYourWrites`, `RevokedAtOnce` | the back office |
| `front` | `Admission`, `Identity`, `Showcase`, `Api` | `OneApplicationAnNIC`, `OneAccountAType`, `CodesUsedUp`, `SilentOnceSignedOut`, `PartnersToldOnce`, `RecordedOnce`, `WithinTheCeiling` | what applicants, members and clients meet |
| `services` | `Jobs`, `Statements`, `Retention`, `Notifications` | `OneOpenRun`, `NothingMissed`, `EveryRunEnds`, `EveryHolderDealtWith`, `RepeatsCostOne`, `RefusedPapersGoFirst`, `NeverForgotten` | what runs unattended |
| `carried_away`, `two_members`, `events_skipped` | `Retention`, `Admission`, `Feed` | one property each | the disagreements of section 6 |

Components that share no rows are put in one run and take turns: a behaviour has
steps of one of them while the others stay as they start. Nothing is lost by
that, as no action of one reads or writes a variable of another.

### Bounds, and why they are enough

* `ledger` (161,760 states): five rows that move single accounts or two, three
  accounts with floors 1 and 0, amounts up to 2: enough for two withdrawals that
  each fit to break a floor, a carried line, an entry behind and before every
  other. `OneStory` (a CONSTRAINT): a behaviour has the transfer or the exit.
* `transfer_review` (792,344): one transfer, three officers and the app, two
  requests in flight - the fewest for one decision to overtake another - and two
  steps, the fewest for forward and approve to differ.
* `paper_review` (349,790): one step per chain, two chains, an amount for each
  and one that posts at once; four spare ids, room for two calls that both
  reverse both legs; no floor (`NoFloor`), which is `ledger`'s question.
  `OneStory`: papers or reversals.
* `exits` (182,000): `OneStory` keeps to two transactions of one holder, which is
  two exits, or an exit and a deposit; who may review and post is
  `transfer_review`'s question. No account is below zero there.
* `intake` (825,887): two requests, three numbers, one transfer, one drawer; one
  paper and two versions of different sizes (section 6 has equal ones). For
  papers, an officer has one request at a time.
* `applications` (396,876): five officers, one of whom has two roles, a quorum of
  two, one application that starts with its fees paid and its paper checked.
  `OneAtATime`: an officer has one request under way; with two tabs
  `PeopleKeptApart` fails (section 6). One step is switched (`Switched`), the
  regional review; where capture may be switched the property fails too.
* Migration in `office`: one batch, two codes (a member's and a customer's, who may
  be a minor under the member), two things a sheet may say of each, one of them
  already on file or neither, two requests and one account used by its holder.
  With one batch a record a row was checked against is never withdrawn under it, so
  the branch of `UpdateCustomer` for a record no longer there is not reached.
  An account a branch opens on a record already on file while its row is under way
  passes for the batch's (it was made since the row began): a cancel takes it if no
  movement but its opening receipt followed, and `OthersKept` claims nothing of it.
* `office`, `front`, `services`: two requests (three for an idempotency key), one
  or two of every other thing. The stories in `MCOffice`, `MCFront` and
  `MCServices` say what is not mixed: one table of the configuration is edited at
  a time, an application is open in one tab (`OneTab`), a code is followed or the
  devices of the session it opened, writes are followed or the counting, one
  partner card, one stop or one break of a job's container, one retention class,
  and no draft deleted by hand during a pass (`NoneDeletedMeanwhile`). Where a
  bound hides behaviour in which a property fails, section 6 says so.
* Runs in which ids run out say `CHECK_DEADLOCK FALSE`: the system goes on, the
  instance has nothing left to do.

Counters are capped in guards by named constants (`MaxRuns`, `MaxStops`,
`MaxBreaks`, `MaxSends`, `Crashes`, `MaxStatements`, `MaxInterrupts`,
`MaxWrites`, `MaxRequests`, `MaxFailures`, `MaxRefresh`, `LastDay`, `MaxLog`,
`Receipts`).

### Fairness

Only `services` assumes it, weak throughout, for `EveryRunEnds` and
`NeverForgotten`. A container or sender that can proceed does (the process runs,
and each `await` is answered or fails); the schedule starts the jobs again (the
cron of `docs/jobs.md`); the server notices a dead session (TCP keepalive); and
time passes, so that a message becomes old enough to be tried again. Stops,
deaths and crashes are bounded, as they must be: a container killed within every
chunk for ever never gets further. The other runs ask what may never happen.

## 4. The proofs

TLAPS checks these for every value of the constants, from the named assumptions
of the modules alone (`HolderOf` maps accounts to holders, `Id` is a set of
naturals, a chunk is not empty, holders are finitely many, ...). Every invariant
and action property of the passing runs is the statement of one. None needs a
story or a small set of section 3, and a cap on a counter may have any value
(`MaxLog` is the one number). Where a property fails without a
restriction on who does what at once (section 6), the theorem has that very
restriction as its hypothesis: `[]OneTab`, `[]OneAtATime` with capture not among
the steps that may be switched off, `NoneDeletedMeanwhile` of each step, and
`SizesDiffer` of the papers. These are the bounds of the runs too, and the
versions in `intake` differ in size.

| Theorem | Property | Of |
| --- | --- | --- |
| `CacheNeverDrifts` (`LedgerProofs`) | `NoDrift` | the ledger: `ledger_drift()` finds nothing |
| `TypeCorrect`, `RunningBalanceHolds`, `PostedNeverEdited`, `FloorNeverBroken`, `LedgerImplementsBooks`, `ReversalsUndo` (`LedgerProofs`) | `TypeOK`, `RunningBalance`, `PostedIsFinal`, `FloorHeld`, `ImplementsBooks`, `ReversalUndoes` | the ledger |
| `Reviewed`, `ThreePeopleTakePart`, `TransferRowFollows`, `WhatLeavesArrives`, `BothLegsPost`, `LegsReversedTogether` (`ReviewProofs`) | `ReviewInv`, `ThreePeople`, `TransferReadsDebitLeg`, `LegsAgree`, `BothLegsOrNeither`, `ReversedTogether` | review, alone and with exits (`Spec \/ ExitSpec`) |
| `ExitsHold`, `ClosingIsForAnExit`, `ClosedIsEmpty`, `DeathLeavesNoDraft` (`ReviewProofs`) | `ExitInv`, `ClosingForAnExit`, `NothingLeftOnClosed`, `NoDraftOutlives` | exits |
| `FeesInvariant`, `TillType`, `OneReceipt`, `EveryNumberAccounted`, `NeverOverRefunded`, `TransferAndReceipt` (`IntakeProofs`) | `FeesInv`, `TillOK`, `OneLivePayment`, `ReceiptsAccounted`, `RefundsWithinTaken`, `TransfersPayOnce` | fees |
| `TillUnderWorkflow`, `OneReceiptUnderWorkflow`, `OneVersionUnderWorkflow`, `LiveFilesUnderWorkflow`, `QuorumHolds` (`IntakeProofs`) | `FeesInv`, `OneLivePayment`, `OneLiveVersion`, `LiveFileIsItsOwn`, `AdmittedByQuorum` | the whole of an application |
| `PeopleStayApart` (`IntakeProofs`) | `PeopleKeptApart` | segregation, an officer's requests one after another |
| `NICsApart`, `AccountsApart` (`FrontProofs`) | `OneApplicationAnNIC`, `OneAccountAType` | a person's applications, each open in one tab |
| `PapersStayInOrder`, `OneVersionIsLive`, `LiveFilesAreTheirOwn` (`DocumentsProofs`) | `PapersInv`, `OneLiveVersion`, `LiveFileIsItsOwn` | papers |
| `EachRequestOnce`, `CeilingHolds`, `CodesOnce`, `PushesReachTheSignedIn`, `PartnersHeardOnce` (`FrontProofs`) | `RecordedOnce`, `WithinTheCeiling`, `CodesUsedUp`, `SilentOnceSignedOut`, `PartnersToldOnce` | the front |
| `OneAtATimeRuns`, `NobodySkipped`, `NoHolderForgotten`, `AnInterruptionCostsOne` (`ServicesProofs`) | `OneOpenRun`, `NothingMissed`, `EveryHolderDealtWith`, `RepeatsCostOne` | jobs and statements |
| `FilesGoBeforeRows` (`ServicesProofs`) | `RefusedPapersGoFirst` | retention, no draft deleted by hand during a pass |
| `AccessIsTyped`, `NoneAfterRevocation`, `CacheIsFresh`, `ReadsWhatItWrote`, `OthersAreKept`, `CorrectionsAreKept` (`OfficeProofs`) | `RevokedAtOnce`, `ReadYourWrites`, `OthersKept`, `CorrectionsSurvive` | access, the configuration cache, the import, corrections to members' details |

### Along which argument

* **Ledger.** `TypeOK` is inductive, and `RunningBalance` over it. `FloorHeld` is
  not: it speaks of the kind of the transaction behind an entry, and an update
  could change a row behind an old entry if the row were not posted.
  `EntriesArePosted` closes that. The refinement maps posted rows to `posted`:
  `Post` is a step of `Books`, every other action a stutter. `ReversalUndoes`
  needs `ReversalsInv`: an entry is of its row's account and direction, a
  transaction has one entry per account, and what is reversed had posted. So the
  entry `post_transaction` looks up of the original is the only one there is, and
  it stays as it was found.
* **Sums.** `NoDrift` and `RepeatsCostOne` add up over a sequence and over a set,
  with folds of the community modules, which are recursive functions that CHOOSE
  the next element. `Sums` unfolds that once, and shows what an induction would by
  taking the least subset that is wrong (`LeastNumber`, from the well-foundedness
  of the order of numbers): that the sums exist, that any two agree, that the
  order of choice is of no consequence. `NoDrift` is then inductive over `TypeOK`:
  a posting adds to an account's entries what it adds to its cached balance.
  `RepeatsCostOne` needs `CostInv`, that the interruptions so far can be shared
  out to people (`SpentOn`) so that each was sent no more than one for each of
  their ids dealt with and what was shared to them: a witness the steps carry
  along and no variable of the code.
* **Review.** `ReviewInv` is seven conjuncts on the rows, the trail, the
  transfers, the pairs of legs, the mirrored status and the entries, and what
  each request under way holds. They take the tables as parameters, as
  `PostAll` does, and are shown of the rows as a handler's updates leave them and
  then as `post_transaction` leaves them: the middle of a database transaction is
  no state. `ThreePeople` needs that whoever was found on the trail stays there,
  so that a refusal decided by an older read is still right. `BothLegsOrNeither`
  needs that a credit leg is submitted, posted or rejected and nothing else, and
  rejected only with its debit leg's rejection on the trail. `ReversedTogether`
  needs `TogetherInv`: what a request to reverse holds is whole transfers, and
  stays so, since both legs of a transfer post in one step or never both (`Firm`,
  `LegsCome`); so a call adds one reversal to each leg or to neither. Of a form,
  `FormsAssumption` asks what the check constraints ask of any row (`WellFormed`),
  and that it carries nothing over (no capture sets `payment_line_id`); so does
  `ExitForm` of what an exit starts with.
* **Exits.** `ExitInv` adds that no exit's kind, account or claimant changes, that
  balances are numbers, and that a request to submit settles accounts its exit
  covers. A handler's transaction is `Written` (rows and statuses) and then `Ended`
  (left so, posted, or reversals posted), and what `ExitKept` says of both steps
  together is shown once for all handlers. That no account is left `closing` for
  good needs that what a death cancels - a returned exit of the holder - covered
  only accounts that death closes. An account is emptied as it closes because
  `PaysWhatIsThere` and the movements read one balance, in one step; it stays
  empty because only a carried line posts to a closed account. An account
  overdrawn by a reversal closes as it stands, and so does the account a
  closure on a death names if it reads `active` by then (section 6): hence
  `<= 0`, and the exception, in `NothingLeftOnClosed`.
* **Fees.** Each request's record says what it has read and holds (a number of
  its own, a transfer it locked), and `FeesInv` says that numbers held are
  distinct and not yet anybody's. `TransfersPayOnce` needs that only a posted
  transfer is reversed, which is why `TillOK` says so.
* **Applications.** The workflow leaves the till's tables alone but where it
  carries fees, and the papers' altogether; the till and the papers leave decisions
  alone; a step changes what one request has in hand, and only to something of its
  own component (`TurnsTo`). These frame lemmas make `FeesInv`, `PapersInv`,
  `Anchors` and `QuorumInv` hold of the composition. `QuorumInv`: a decision under
  way was counted on sign-offs of distinct officers, which only grow in a pass.
* **Segregation.** What a request read of the trail is true as it commits, though
  the trail has grown: `ApartInv` keeps for each request under way that its
  officer is not the captor and did nothing the rules keep from it. Others write
  down only themselves, and the captor; the captor was on the trail before
  (`CaptorsKnown`), if capture is a step, and is nobody who reviews; and the same
  officer has no other request under way (`OneAtATime`).
* **Admission.** `AdmInv`: an application that was looked for under its NIC
  (`Cleared`: before the Board, approved, or a submission that has looked and not
  yet committed) shares the NIC with none that is not of its folder; whoever an
  application names is there, and its folder is theirs; and what a request read of
  its application still stands, or the application was thrown away. It takes no
  lock: an application carries its NIC from when it is typed, so the later of two
  that look finds the earlier (`NicTaken`). `OneTab` is needed where a save, a
  carried form or a submission commits: no other request has that application
  open. Accounts keep apart because whoever owns them is on file (`OwnersThere`)
  and a conversion takes along only types a membership does not open.
* **Documents.** Names are given by the count of what was filed, so one is never
  given twice; `Anchors` ties a committed version to the file found for it, and
  survives other uploads if no two files are of one size (`SizesDiffer`, the
  hypothesis of that theorem: the code compares sizes alone, section 6).
* **Front.** `WritesInv`: a request that recorded its row has nothing left but
  its answer, and a key has one row at most. `CountingInv`: those let through are
  the window's count, or could not be counted. `CodesInv`: a session is opened
  from a challenge by consuming it, and a challenge whose last attempt was taken
  is consumed. `ShowcaseInv`: words sent and words on their way are together no
  more than appearances.
* **Jobs.** `JobsInv` says of each container, also one that lost its lock and
  goes on, that it is `Sound`: what it holds in memory is true of the run's rows
  whatever other containers did, because rows stay due and worked stays worked
  (`Onwards`). That a chunk has a last row, and holds each row up to it, is
  `ChunkOfFirst`, from the well-foundedness of the order of ids. `OneOpenRun`
  follows as a run is created under the lock and only if none is open.
* **Statements.** Who holds under an id keeps it or leaves it for good
  (`IdsTaken`), so a run's holders only go; and a checkpoint is true of the run it
  names, whatever has happened since (`CheckpointSound`).
* **Retention.** `RefusedTaken`: a refused application in hand is nowhere edited
  or deleted until the pass lets it go (it may be reopened), so its rows stand as
  they were read. Each of its scans is named by another's rows too, is still on
  the pass's list, or has left the drive (`GoesFirst`); what a row names is not
  filed again. A scan read as shared could lose its other name only with a draft
  deleted by hand, which is what `NoneDeletedMeanwhile` is for: the pass itself
  takes drafts last.
* **Access.** `Just` says of each request that waits that `could`, a history
  variable, is already true if it could be admitted now: every step that can make
  it so asks again (`Witness`), and the others change nothing it depends on,
  `Finish` and sign-ins included.
* **Configuration.** `CacheInv`: the entry of an instance, once read, saw at least
  what that instance has answered; the load a reader waits for, at least what had
  been answered there when the reader came; and a request on its way to clear
  the cache clears what is written already. A query sees what is committed, so
  a load can only be too old for what is answered after it: `ClearCache` drops the
  entry in the step that answers, and a reader who comes later finds another.
* **Migration.** `RegisterStands`: whoever is not on file has no accounts. Of the
  steps, only `CancelBatch` removes anything. `RequestsPlanned`: the accounts of a
  planned history were held when it was planned; that they are compared again as
  it commits is why none is written to that has gone. `BranchAssumption` says that
  what a branch put on file is told from what a batch did
  (`member.migration_batch_id`).
* **Members.** `DetailsStand` gives every record its fields. A request is applied
  by one step, which writes the fields where the form differs from the values it
  was filled in from, as they are in the request and not as they stand.

### What stays with TLC

* Liveness (`EveryRunEnds`, `NeverForgotten`) and ENABLED: out of reach.
* The three properties of section 6's runs, which fail; and, of those whose
  theorem has a restriction on who does what at once, what may be said without it
  (from a second tab a submission begun earlier writes `submitted` over an
  application approved since, which is then approved again).
* That an instance reaches its interesting cases: the mutants fail there, and
  every action fires.

## 5. What the checks say of the code

The ledger held every property asked of it: whatever the callers do, entries,
cache, floor and finality stand, for any number of accounts and transactions.
The unique indexes, the locks on receipts, payments and challenges, the
idempotency keys and the advisory lock of the jobs do what they are there for.
Between capture and posting three people take part, legs agree and the transfer
row follows its debit leg, in spite of reads that are old when they are used,
because segregation is asked of a trail that only grows. A container that lost
its lock can repeat a chunk and cannot move the cursor: the checkpoint is on the
lock's session. Where the code compares a status read earlier with nothing as it
writes, things go wrong: section 6.

## 6. Disagreements with what the repository says of itself

Three are kept as runs:

1. `SharedFilesStay` (`carried_away`): an application that was refused has its
   papers carried, in place, to the applicant's next one; its disposal deletes its
   folder, and the live application's files with it.
2. `OnePersonOneMember` (`two_members`): two applications of one person that were
   never before the Board together are both approved, and make two members.
3. `EventsAllSeen` (`events_skipped`): an event is numbered as it is inserted and
   seen as it is committed; a reader who keeps to the documented protocol never
   sees one that committed after a later number was read.

Others were met while modelling. Some are behaviours the models have, and the
reason why a property says "unless" or a story has a bound; they are listed here
with the place, for the team to judge.

**Money**

* `ledger/reversals.ts:46` reads outside the transaction whether a transaction was
  reversed; two calls both reverse it (docs/ledger.md:502 says at most once).
* `review.ts:753` writes a decision over whatever the row reads by then: a forward
  begun before a rejection revives what "reject ends" (review.ts:658). The debit
  leg of a revived transfer may post without its credit leg.
* A return and a correction to another band in between approve a transaction on a
  chain its approver has no role on; `routing.ts:330` re-enters a step without
  writing it.
* A resignation and a demised claim do not look for each other (demises.ts:674):
  withdrawing the claim reopens the accounts of the resignation, which then ends
  the membership with them open (docs/ledger.md:670).
* A closure on a death approved over its rejection pays nothing and closes its
  account, money and all; an account below zero is in an exit's sum and gets no
  entry (migrations/0099:252, 312; docs/ledger.md:577).
* A reversal of one leg carries no transfer and may be reversed alone
  (reversals.ts:157, against reversals.ts:8); a transfer's captor may reverse it
  by its credit leg, as the trail has the debit leg's reference
  (transfers.ts:490).
* The app's retries are judged before the key is looked up (deposits.ts:312 says
  "answered before it is judged"), and all app members share one `captured_by`, so
  a key is theirs together.
* `accountStatement` mixes dates and times: lines do not add up to the closing
  figure when a posting straddles midnight (docs/ledger.md:458).
* A drawer's closing figure is read before it closes (cash/sessions.ts:291).
* `updateDepositRequest` writes a draft it read earlier, also once submitted.

**Applications and papers**

* With two concurrent sign-offs at a quorum of two, each counts one, and the
  application waits with both (workflow.ts:918); the Board may then do no more
  than repeat itself (workflow.ts:1010). Sign-offs of an earlier pass count.
* A stale forward or return writes the status of a pass that is over
  (workflow.ts:750, 955); two tabs of one officer get past segregation; switching
  the Secretary's review off strands what waits there.
* `setStepEnabled` (config/reference.ts:1778) refuses only the last step. With
  capture off, the chain is bridged (reference.ts:1726) and a draft stands before
  the Secretary with nobody recorded as its captor: the officer who captured it may
  then review or sign it.
* Fees carried after the approval are not (CommitRecord); a refund does not stop
  the Board although docs/applications.md:535 says so.
* `pendingApplicationIds` and `pendingActionCount` differ from
  docs/applications.md:522.
* Two commits of one upload around another upload can leave a document with no
  live version; two files of one size are taken for each other; a verdict may land
  on a file it was not given on; a commit may follow submission by long; the
  drive's rename is not looked for (upload.ts:159).
* capture.ts:915 says what create.ts:234 does not do for a customer's further
  application pending at conversion; an NIC may be edited between submission's
  read and its commit; held accounts are read before the approval's transaction
  (create.ts:247).

**Members, configuration, import**

* The guardian may be dead (guardian.ts:319); a form read earlier overwrites
  (profile.ts:502, details-requests.ts:138); a member who moves funds as the job
  runs is marked dormant.
* Two administrators deactivate the last two types or steps at once; roles and
  eligibility edited together become the union of both.
* An outlet is announced though deactivated since; a promotion may be announced
  twice (promotions.ts:273 "the phones hear once").
* A cancelled import leaves behind what was made after it was cancelled
  (batches.ts:237, against docs/backlog.md:5289), and removes an account a branch
  opened in the meantime (migrations/0110:139); a void receipt number blocks the
  restoring of history (migrations/0130:95).

**Unattended**

* A statement goes twice to whom it was sent when the job died before it was
  recorded, and to a customer who became a member during the run; one converted
  to a lower id is missed (member-statement.ts:521, migrations/0106:11: "never
  sends anyone twice").
* A notification's ceiling is checked with attempts read earlier, and a late
  failure overwrites `sent` (retry.ts:117).
* Retention: a former member's papers are named by others' rows (documents.ts:2018,
  disposal.ts:228, docs/retention.md); an application reopened between selection
  and redaction is emptied; a draft that files into another's folder leaves its
  scans when it is deleted, and deleted by hand during a pass it leaves those it
  shared; `disposed_at` is never reset.
* `disableToken` silences a phone that has registered again.

## 7. Not modelled

* Statement-level locks and isolation: a database transaction is one step. So
  deadlocks, which PostgreSQL ends by failing one side (the models have such
  failures), and `rebuild_account_balance()`.
* In Review: the guardian's refusal, payment methods, comments. In Exits: papers
  filed, claimants' details, minors in care, unpaid fees, edits. In Fees: fee
  tables and amounts. In Admission: the forms' fields, dependants. In
  Configuration: wording and amounts. In Migration: fields a rule compares with
  nothing else (names, dates, employment, nominees), and amounts beyond whether
  there is one. In Jobs: the watch, which only reads.
* Reports, search, timelines, pages and client scripts, the mail and SMS wording,
  the directory: no state whose interleavings matter, or I/O.

## 8. Plan

1. Proofs: what holds of segregation between officers with two tabs; what is paid
   and verified of what the Board has before it.
2. `Routing`: `routeBands` against `resolveRoute`, as functions; the statement of
   an account as a fold, against its entries.
3. `PostingLocks`: the statements of `post_transaction` and
   `rebuild_account_balance` one by one, with their locks.
