------------------------------- MODULE Review -------------------------------
(***************************************************************************)
(* How a transaction gets from its captor to post_transaction:             *)
(* lib/ledger/routing.ts, review.ts, deposits.ts, deposit-requests.ts,     *)
(* withdrawals.ts, transfers.ts and reversals.ts.                          *)
(*                                                                         *)
(* Every handler is two steps.  Its first part reads the transaction, the  *)
(* chain and the audit trail and refuses what it must (Begin...); its      *)
(* second is one database transaction, which writes what the first part    *)
(* decided (Commit...).  Nothing but post_transaction and                  *)
(* guard_transaction reads the row again in between, so other officers'    *)
(* handlers may come between the two.                                      *)
(***************************************************************************)
EXTENDS Posting

CONSTANTS
    Officer,     \* everyone who acts, the member-app's system user included
    App,         \* that system user
    Captors,     \* officers who may capture
    Posters,     \* officers who may post or pay out
    Reversers,   \* officers who may reverse
    Chain,       \* workflow definitions of transactions
    NoChain,     \* the matrix names none: the transaction posts at once
    Steps,       \* how many steps a definition has
    OwnsStep,    \* the <<chain, step>> pairs each officer has the role for
    Amounts,     \* the amounts captured and corrected
    Band,        \* the matrix: the chain of each amount
    Forms,       \* what may be captured: the rows of one transaction or transfer
    Drafted,     \* deposits that need a Source of Fund form, and are drafted
    Spare,       \* ids for reversals
    Request,     \* the requests that may be under way at once
    Customer     \* holders who are not members

ASSUME OfficerAssumption ==
    App \in Officer /\ Captors \subseteq Officer /\ Posters \subseteq Officer \ {App}
ASSUME StepsAssumption == Steps \in Nat \ {0} /\ NoChain \notin Chain
ASSUME BandAssumption == Amounts \subseteq Nat \ {0} /\ Band \in [Amounts -> Chain \cup {NoChain}]
ASSUME SpareAssumption == Spare \subseteq Tx

\* What a capture inserts: one row, or the legs of a transfer of its own,
\* the debit leg alone when it pays somebody outside.  A deposit alone is
\* drafted first.
OneRow(form) ==
    \E t \in Tx : /\ DOMAIN form = {t}
                  /\ form[t].kind \in {"deposit", "withdrawal"}
                  /\ form[t].leg = "none" /\ form[t].transfer = NoTransfer

Legs(form) ==
    \E d, c \in Tx :
        /\ DOMAIN form = {d, c}
        /\ \A t \in {d, c} : form[t].kind = "transfer_leg" /\ form[t].transfer \in Transfer
        /\ form[d].leg = "debit"
        /\ c # d => /\ form[c].leg = "credit"
                    /\ form[c].transfer = form[d].transfer /\ form[c].amount = form[d].amount

ASSUME FormsAssumption ==
    /\ \A form \in Forms \cup Drafted :
           /\ OneRow(form) \/ Legs(form)
           /\ \A t \in DOMAIN form : /\ form[t] \in Row /\ WellFormed(form[t])
                                    /\ form[t].status = "submitted" /\ ~form[t].carried
    /\ \A form \in Drafted : \A t \in DOMAIN form : form[t].kind = "deposit"
    /\ \A form, other \in Forms : \A t \in DOMAIN form, u \in DOMAIN other :
           form[t].transfer \in Transfer /\ other[u].transfer = form[t].transfer
               => DOMAIN form = DOMAIN other

Step == 1..Steps
NoStep == 0
Acting == {"captured", "reviewed", "approved", "returned", "rejected", "posted", "reversed"}

VARIABLES
    chain,    \* workflow_definition_id of each transaction
    step,     \* current_step_code of each transaction
    transfer, \* the status of each transfer
    enabled,  \* the enabled steps of each chain
    audit,    \* the audit trail: who did what to which transaction
    desk      \* each request under way, as its first part left it

work == <<chain, step, transfer, enabled, audit>>
vars == <<tables, work, desk>>

Idle == [does |-> "nothing"]

Init ==
    /\ EmptyTables
    /\ chain = [t \in Tx |-> NoChain]
    /\ step = [t \in Tx |-> NoStep]
    /\ transfer = [x \in Transfer |-> "none"]
    /\ enabled = [c \in Chain |-> Step]
    /\ audit = {}
    /\ desk = [q \in Request |-> Idle]

----------------------------------------------------------------------------
(* Reading *)

Did(o, did, t) == <<o, did, t>> \in audit

FromApp(t) == Did(App, "captured", t)

\* The transaction a capture routes: a transfer's is its debit leg.
Lead(form) == CHOOSE t \in DOMAIN form : form[t].leg # "credit"

\* The steps left from where a transaction stands, on the chain as it is now.
StepsLeft(t) ==
    IF chain[t] = NoChain \/ step[t] = NoStep
    THEN {} ELSE {s \in enabled[chain[t]] : s >= step[t]}

\* The first step of a chain; a chain with no enabled step is no chain.
FirstStep(c) ==
    IF c = NoChain THEN NoStep ELSE IF enabled[c] = {} THEN NoStep ELSE Min(enabled[c])

Route(amount) == IF FirstStep(Band[amount]) = NoStep THEN NoChain ELSE Band[amount]

\* Mutant of Segregated: posting held apart from capturing only.
SegregatedFromCaptor(o, did, t) ==
    did \in {"reviewed", "approved", "posted", "reversed"} => ~Did(o, "captured", t)

\* The seeded segregation rules (0069, 0071, 0072, 0074), and the exemption
\* of a deposit the app captured.
Segregated(o, did, t) ==
    /\ did \in {"reviewed", "approved", "posted", "reversed"} => ~Did(o, "captured", t)
    /\ did = "posted" /\ ~(tx[t].kind = "deposit" /\ FromApp(t)) => ~Did(o, "approved", t)

Outgoing(r) ==
    \/ r.kind \in {"withdrawal"} \cup ExitKind
    \/ r.kind = "transfer_leg" /\ r.leg = "debit"

\* Balance less what is already on its way out (availableBalance).
Pending(a) ==
    {t \in Tx : /\ tx[t].status \in {"submitted", "under_review", "approved"}
                /\ tx[t].account = a
                /\ Outgoing(tx[t])}

Available(a) == cache[a].balance - MapThenSumSet(LAMBDA t : tx[t].amount, Pending(a))

\* Who may deal on an open account: a resigned member still may.
CanTransact(h) == holder[h] \in {"active", "resigned"}

\* refuseUnlessDepositable
Depositable(a) == account[a] = "active" /\ CanTransact(HolderOf[a])

\* refuseUnlessCreditable
Creditable(a) == account[a] = "active" /\ CanTransact(HolderOf[a])

\* refuseUnlessWithdrawable
Withdrawable(a, amount) ==
    /\ account[a] = "active"
    /\ CanTransact(HolderOf[a])
    /\ Available(a) - amount >= Floor[a]

OtherLegs(t) ==
    IF tx[t] = NoRow \/ tx[t].kind # "transfer_leg" THEN {}
    ELSE {u \in Tx \ {t} : tx[u] # NoRow /\ tx[u].transfer = tx[t].transfer}

----------------------------------------------------------------------------
(* Writing *)

Sits(q, request) == desk' = [desk EXCEPT ![q] = request]

\* Mutant: a transfer that comes back keeps the status it had.
MirrorsUnlessReturned(r, status) ==
    transfer' = IF r.kind = "transfer_leg" /\ status # "returned"
                THEN [transfer EXCEPT ![r.transfer] = status] ELSE transfer

\* A row goes to posting, or waits; its transfer reads what it reads.
Mirrors(r, status) ==
    transfer' = IF r.kind = "transfer_leg" THEN [transfer EXCEPT ![r.transfer] = status]
                ELSE transfer

Records(o, did, S) == {<<o, did, t>> : t \in S}

\* A closure that leaves its holder no open account ends them: on a death
\* they are demised, and a customer is closed.
Marked(r, accts, holders) ==
    [h \in Holder |->
        IF \/ r.kind # "closure" \/ h # HolderOf[r.account]
           \/ \E a \in Account : HolderOf[a] = h /\ accts[a] # "closed"
        THEN holders[h]
        ELSE IF r.claimant THEN "demised"
        ELSE IF h \in Customer /\ holders[h] = "active" THEN "closed" ELSE holders[h]]

\* Drafts and returned transactions that touch a holder, by an account of
\* theirs on the row or on another leg of its transfer.
DraftsOf(h, rows) ==
    {t \in Tx :
        /\ rows[t].status \in {"draft", "returned"}
        /\ \E u \in {t} \cup OtherLegs(t) : HolderOf[rows[u].account] = h}

\* A death that ends its holder cancels them.  (Mutant: it is looked at
\* before the holder is marked.)
CancelledBefore(r, rows, holders) ==
    IF r.kind \in {"demise", "closure"} /\ r.claimant /\ holder[HolderOf[r.account]] = "demised"
    THEN DraftsOf(HolderOf[r.account], rows) ELSE {}

CancelledBy(r, rows, holders) ==
    IF r.kind \in {"demise", "closure"} /\ r.claimant /\ holders[HolderOf[r.account]] = "demised"
    THEN DraftsOf(HolderOf[r.account], rows) ELSE {}

\* post_transaction, and what the application does in the same database
\* transaction once it has posted.
PostAndEnd(head, rows, accts, steps) ==
    LET S == PostedWith(head, rows)
        holders == Marked(rows[head], AccountsAfter(S, rows, accts), HoldersAfter(S, rows))
        gone == CancelledBy(rows[head], RowsAfter(S, rows), holders)
    IN  /\ Enter(S, rows, accts)
        /\ holder' = holders
        /\ tx' = [t \in Tx |-> IF t \in gone THEN [rows[t] EXCEPT !.status = "cancelled"]
                               ELSE RowsAfter(S, rows)[t]]
        /\ step' = [t \in Tx |-> IF t \in gone THEN NoStep ELSE steps[t]]
        /\ transfer' = [x \in Transfer |->
               IF \E t \in gone : rows[t].transfer = x THEN "cancelled"
               ELSE IF rows[head].transfer = x THEN "posted" ELSE transfer[x]]

\* Send head off with the rest of the tables as rows and accts: to the step
\* it was routed to, or through post_transaction at once.
Submit(o, head, rows, accts, c, s, seen) ==
    /\ chain' = [chain EXCEPT ![head] = c]
    /\ IF c # NoChain
       THEN /\ tx' = rows
            /\ account' = accts
            /\ step' = [step EXCEPT ![head] = s]
            /\ Mirrors(rows[head], "submitted")
            /\ audit' = audit \cup seen
            /\ UNCHANGED <<holder, entry, cache>>
       ELSE /\ PostAndEnd(head, rows, accts, [step EXCEPT ![head] = s])
            /\ audit' = audit \cup seen \cup Records(o, "posted", PostedWith(head, rows))

\* Send a returned one off again: it re-enters at the step that returned it
\* when the matrix names the same chain and that step is still enabled;
\* otherwise it starts over.  The status is written over whatever the row
\* has by now.
SubmitAgain(d, rows, accts) ==
    LET reenters == d.chain # NoChain /\ d.chain = d.leftChain
                    /\ d.leftStep \in enabled[d.chain]
        status == IF reenters /\ d.leftStep # FirstStep(d.chain)
                  THEN "under_review" ELSE "submitted"
        sent == [rows EXCEPT ![d.tx].status = status]
    IN  IF reenters
        THEN /\ tx' = sent
             /\ account' = accts
             /\ Mirrors(sent[d.tx], status)
             /\ UNCHANGED <<holder, entry, cache, chain, step, audit>>
        ELSE Submit(d.by, d.tx, sent, accts, d.chain, d.step, {})

----------------------------------------------------------------------------
(* recordDeposit, recordWithdrawal, recordTransfer *)

\* What a capture decides before it writes: the route, and that its captor
\* may post what goes to no chain.
Routes(q, o, form) ==
    LET amount == form[Lead(form)].amount
    IN  /\ \A t \in DOMAIN form : tx[t] = NoRow
        /\ Route(amount) = NoChain => o \in Posters
        /\ Sits(q, [by |-> o, does |-> "record", form |-> form, chain |-> Route(amount),
                    step |-> FirstStep(Route(amount))])
        /\ UNCHANGED <<tables, work>>

BeginDeposit(q, o) ==
    \E form \in Forms :
        LET r == form[Lead(form)]
        IN  r.kind = "deposit" /\ Depositable(r.account) /\ Routes(q, o, form)

BeginWithdrawal(q, o) ==
    \E form \in Forms :
        LET r == form[Lead(form)]
        IN  r.kind = "withdrawal" /\ Withdrawable(r.account, r.amount) /\ Routes(q, o, form)

BeginTransfer(q, o) ==
    \E form \in Forms :
        LET r == form[Lead(form)]
        IN  /\ r.kind = "transfer_leg"
            /\ Withdrawable(r.account, r.amount)
            /\ \A t \in DOMAIN form \ {Lead(form)} : Creditable(form[t].account)
            /\ Routes(q, o, form)

\* The rows go in, with their capture on the trail, and are sent off.
Recorded(q, kind) ==
    /\ desk[q].does = "record"
    /\ LET form == desk[q].form
       IN  /\ form[Lead(form)].kind = kind
           /\ \A t \in DOMAIN form : tx[t] = NoRow
           /\ Submit(desk[q].by, Lead(form),
                     [t \in Tx |-> IF t \in DOMAIN form THEN form[t] ELSE tx[t]],
                     account, desk[q].chain, desk[q].step,
                     Records(desk[q].by, "captured", {Lead(form)}))
    /\ Sits(q, Idle)
    /\ UNCHANGED enabled

CommitDeposit(q) == Recorded(q, "deposit")

CommitWithdrawal(q) == Recorded(q, "withdrawal")

CommitTransfer(q) == Recorded(q, "transfer_leg")

----------------------------------------------------------------------------
(* A deposit that needs a Source of Fund form: startDepositRequest,        *)
(* updateDepositRequest, submitDepositRequest, cancelDepositRequest        *)

OwnDraft(o, t) ==
    tx[t].status = "draft" /\ tx[t].kind = "deposit" /\ Did(o, "captured", t)

BeginRequest(q, o) ==
    /\ \E form \in Drafted :
           LET r == form[Lead(form)]
           IN  /\ tx[Lead(form)] = NoRow
               /\ Depositable(r.account)
               /\ Route(r.amount) = NoChain => o \in Posters
               /\ Sits(q, [by |-> o, does |-> "draft", form |-> form])
    /\ UNCHANGED <<tables, work>>

CommitRequest(q) ==
    /\ desk[q].does = "draft"
    /\ LET t == Lead(desk[q].form)
       IN  /\ tx[t] = NoRow
           /\ tx' = [tx EXCEPT ![t] = [desk[q].form[t] EXCEPT !.status = "draft"]]
           /\ audit' = audit \cup Records(desk[q].by, "captured", {t})
    /\ Sits(q, Idle)
    /\ UNCHANGED <<account, holder, entry, cache, chain, step, transfer, enabled>>

\* Only the amount and the reason are written: the status is whatever the
\* row has by then.
BeginUpdateRequest(q, o, t) ==
    /\ OwnDraft(o, t)
    /\ Depositable(tx[t].account)
    /\ \E amount \in Amounts : Sits(q, [by |-> o, does |-> "edit", tx |-> t, amount |-> amount])
    /\ UNCHANGED <<tables, work>>

CommitUpdateRequest(q) ==
    /\ desk[q].does = "edit"
    /\ tx[desk[q].tx].status # "posted"
    /\ tx' = [tx EXCEPT ![desk[q].tx].amount = desk[q].amount]
    /\ Sits(q, Idle)
    /\ UNCHANGED <<account, holder, entry, cache, work>>

BeginSubmitRequest(q, o, t) ==
    /\ OwnDraft(o, t)
    /\ Depositable(tx[t].account)
    /\ Route(tx[t].amount) = NoChain => o \in Posters
    /\ Sits(q, [by |-> o, does |-> "send", tx |-> t, chain |-> Route(tx[t].amount),
                step |-> FirstStep(Route(tx[t].amount))])
    /\ UNCHANGED <<tables, work>>

CommitSubmitRequest(q) ==
    /\ desk[q].does = "send"
    /\ tx[desk[q].tx].status # "posted"
    /\ Submit(desk[q].by, desk[q].tx, [tx EXCEPT ![desk[q].tx].status = "submitted"], account,
              desk[q].chain, desk[q].step, {})
    /\ Sits(q, Idle)
    /\ UNCHANGED enabled

BeginCancelRequest(q, o, t) ==
    /\ OwnDraft(o, t)
    /\ Sits(q, [by |-> o, does |-> "drop", tx |-> t])
    /\ UNCHANGED <<tables, work>>

CommitCancelRequest(q) ==
    /\ desk[q].does = "drop"
    /\ tx[desk[q].tx].status # "posted"
    /\ tx' = [tx EXCEPT ![desk[q].tx].status = "cancelled"]
    /\ Sits(q, Idle)
    /\ UNCHANGED <<account, holder, entry, cache, work>>

----------------------------------------------------------------------------
(* resubmitDeposit, resubmitWithdrawal, resubmitTransfer *)

\* A correction may move it to another account of the same holder; a
\* transfer's accounts stay.
AccountsFor(t) == {a \in Account : HolderOf[a] = HolderOf[tx[t].account]}

\* A correction to a transfer edits its credit leg too.  (Mutant: only the
\* leg that was returned.)
EditedAlone(t) == {t}

EditedWith(t) == {t} \cup {u \in OtherLegs(t) : tx[u].leg = "credit"}

\* A returned one is its captor's to correct; what is routed is what it
\* becomes.
Corrects(q, o, t, a, amount) ==
    /\ Did(o, "captured", t)
    /\ Route(amount) = NoChain => o \in Posters
    /\ Sits(q, [by |-> o, does |-> "resubmit", tx |-> t, amount |-> amount, account |-> a,
                chain |-> Route(amount), step |-> FirstStep(Route(amount)),
                leftChain |-> chain[t], leftStep |-> step[t]])
    /\ UNCHANGED <<tables, work>>

BeginResubmitDeposit(q, o, t) ==
    /\ tx[t].status = "returned" /\ tx[t].kind = "deposit"
    /\ \E amount \in Amounts, a \in AccountsFor(t) :
           Depositable(a) /\ Corrects(q, o, t, a, amount)

BeginResubmitWithdrawal(q, o, t) ==
    /\ tx[t].status = "returned" /\ tx[t].kind = "withdrawal"
    /\ \E amount \in Amounts, a \in AccountsFor(t) :
           Withdrawable(a, amount) /\ Corrects(q, o, t, a, amount)

BeginResubmitTransfer(q, o, t) ==
    /\ tx[t].status = "returned" /\ tx[t].kind = "transfer_leg" /\ tx[t].leg = "debit"
    /\ \E amount \in Amounts :
           /\ Withdrawable(tx[t].account, amount)
           /\ \A u \in OtherLegs(t) : Creditable(tx[u].account)
           /\ Corrects(q, o, t, tx[t].account, amount)

\* The row is edited, whatever it has become, and sent off again.
Resubmitted(q, kind) ==
    /\ desk[q].does = "resubmit"
    /\ tx[desk[q].tx].kind = kind
    /\ LET d == desk[q]
       IN  /\ \A u \in EditedWith(d.tx) : tx[u].status # "posted"
           /\ SubmitAgain(d, [u \in Tx |->
                                 IF u = d.tx THEN [tx[u] EXCEPT !.amount = d.amount,
                                                                !.account = d.account]
                                 ELSE IF u \in EditedWith(d.tx)
                                 THEN [tx[u] EXCEPT !.amount = d.amount]
                                 ELSE tx[u]], account)
    /\ Sits(q, Idle)
    /\ UNCHANGED enabled

CommitResubmitDeposit(q) == Resubmitted(q, "deposit")

CommitResubmitWithdrawal(q) == Resubmitted(q, "withdrawal")

CommitResubmitTransfer(q) == Resubmitted(q, "transfer_leg")

----------------------------------------------------------------------------
(* reviewTransaction *)

\* Forward sends it to the next enabled step, from the last one to approved;
\* return keeps the step; reject ends it.
Outcomes(t) ==
    LET at == Min(StepsLeft(t))
        later == StepsLeft(t) \ {at}
    IN  {IF later = {} THEN [to |-> "approved", step |-> NoStep, as |-> "approved"]
         ELSE [to |-> "under_review", step |-> Min(later), as |-> "reviewed"],
         [to |-> "returned", step |-> at, as |-> "returned"],
         [to |-> "rejected", step |-> NoStep, as |-> "rejected"]}

BeginReview(q, o, t) ==
    /\ tx[t].status \in {"submitted", "under_review"}
    /\ StepsLeft(t) # {}
    /\ <<chain[t], Min(StepsLeft(t))>> \in OwnsStep[o]
    /\ Segregated(o, IF Cardinality(StepsLeft(t)) = 1 THEN "approved" ELSE "reviewed", t)
    /\ \E d \in Outcomes(t) :
           /\ d.to = "returned" => ~FromApp(t)
           /\ Sits(q, [by |-> o, does |-> "review", tx |-> t, to |-> d.to, step |-> d.step,
                       as |-> d.as])
    /\ UNCHANGED <<tables, work>>

\* An exit refused or withdrawn opens what was closing for it.  (Mutant: the
\* account it names.)
ReopenedAlone(r) == [account EXCEPT ![r.account] = IF @ = "closing" THEN "active" ELSE @]

Reopened(r) == [a \in Account |-> IF a \in Leaving(r, account) THEN "active" ELSE account[a]]

CommitReview(q) ==
    /\ desk[q].does = "review"
    /\ LET d == desk[q]
           fall == IF d.to = "rejected"
                   THEN {u \in OtherLegs(d.tx) : tx[u].status # "posted"} ELSE {}
       IN  /\ tx[d.tx].status # "posted"
           /\ tx' = [u \in Tx |-> IF u = d.tx THEN [tx[u] EXCEPT !.status = d.to]
                                 ELSE IF u \in fall THEN [tx[u] EXCEPT !.status = "rejected"]
                                 ELSE tx[u]]
           /\ step' = [step EXCEPT ![d.tx] = d.step]
           /\ account' = IF d.to = "rejected" /\ tx[d.tx].kind \in ExitKind
                         THEN Reopened(tx[d.tx]) ELSE account
           /\ Mirrors(tx[d.tx], d.to)
           /\ audit' = audit \cup Records(desk[q].by, d.as, {d.tx})
    /\ Sits(q, Idle)
    /\ UNCHANGED <<holder, entry, cache, chain, enabled>>

----------------------------------------------------------------------------
(* postApprovedTransaction *)

BeginPost(q, o, t) ==
    /\ tx[t].status = "approved"
    /\ tx[t].leg # "credit"
    /\ Segregated(o, "posted", t)
    /\ Sits(q, [by |-> o, does |-> "post", tx |-> t])
    /\ UNCHANGED <<tables, work>>

\* An exit's figure is read again just before it posts.
AmountNow(r) ==
    CASE r.kind \notin ExitKind -> r.amount
      [] SettlesTogether(r)     -> SettledAmount(r, account)
      [] OTHER                  -> cache[r.account].balance

CommitPost(q) ==
    /\ desk[q].does = "post"
    /\ LET t == desk[q].tx
           rows == [tx EXCEPT ![t].amount = AmountNow(tx[t])]
       IN  /\ AmountNow(tx[t]) >= 0
           /\ PostAndEnd(t, rows, account, step)
           /\ audit' = audit \cup Records(desk[q].by, "posted", PostedWith(t, rows))
    /\ Sits(q, Idle)
    /\ UNCHANGED <<chain, enabled>>

----------------------------------------------------------------------------
(* reverseTransaction *)

\* A transfer is undone whole: the leg named and its other leg.  (Mutant:
\* the leg named.)
ReversedAlone(t) == {t}

ReversedWith(t) == {t} \cup {u \in OtherLegs(t) : tx[u].status = "posted"}

BeginReverse(q, o, t) ==
    /\ tx[t].status = "posted"
    /\ tx[t].kind \notin ExitKind
    /\ \A r \in Tx : tx[r].status = "posted" => tx[r].reverses # t
    /\ Segregated(o, "reversed", t)
    /\ \A u \in ReversedWith(t) : account[tx[u].account] # "closed"
    /\ Sits(q, [by |-> o, does |-> "reverse", targets |-> ReversedWith(t)])
    /\ UNCHANGED <<tables, work>>

ReversalOf(t) == [tx[t] EXCEPT !.kind = "reversal", !.status = "submitted", !.leg = "none",
                              !.transfer = NoTransfer, !.reverses = t, !.carried = FALSE]

CommitReverse(q) ==
    /\ desk[q].does = "reverse"
    /\ \E id \in [desk[q].targets -> {u \in Spare : tx[u] = NoRow}] :
           LET ids == {id[t] : t \in desk[q].targets}
           IN  /\ Cardinality(ids) = Cardinality(desk[q].targets)
               /\ PostAll(ids,
                          [u \in Tx |-> IF u \in ids
                                        THEN ReversalOf(CHOOSE t \in desk[q].targets : id[t] = u)
                                        ELSE tx[u]],
                          account)
               /\ audit' = audit \cup Records(desk[q].by, "reversed", desk[q].targets)
                                \cup Records(desk[q].by, "posted", ids)
    /\ Sits(q, Idle)
    /\ UNCHANGED <<chain, step, transfer, enabled>>

----------------------------------------------------------------------------

\* A request ends without an effect: its database transaction is refused or
\* rolled back, the process dies, or the connection is lost.
Abandon(q) ==
    /\ desk[q] # Idle
    /\ Sits(q, Idle)
    /\ UNCHANGED <<tables, work>>

\* An administrator enables or disables a step (Configuration, Workflows).
Toggle(c, s) ==
    /\ enabled' = [enabled EXCEPT ![c] = IF s \in @ THEN @ \ {s} ELSE @ \cup {s}]
    /\ UNCHANGED <<tables, chain, step, transfer, audit, desk>>

\* Each by who has the permission for it.
Begins(q) ==
    /\ desk[q] = Idle
    /\ \/ \E o \in Captors :
              \/ BeginDeposit(q, o) \/ BeginWithdrawal(q, o) \/ BeginTransfer(q, o)
              \/ BeginRequest(q, o)
              \/ \E t \in Tx :
                     \/ BeginUpdateRequest(q, o, t)
                     \/ BeginSubmitRequest(q, o, t)
                     \/ BeginCancelRequest(q, o, t)
                     \/ BeginResubmitDeposit(q, o, t)
                     \/ BeginResubmitWithdrawal(q, o, t)
                     \/ BeginResubmitTransfer(q, o, t)
       \/ \E o \in Officer, t \in Tx : BeginReview(q, o, t)
       \/ \E o \in Posters, t \in Tx : BeginPost(q, o, t)
       \/ \E o \in Reversers, t \in Tx : BeginReverse(q, o, t)

Commits(q) ==
    \/ CommitDeposit(q) \/ CommitWithdrawal(q) \/ CommitTransfer(q)
    \/ CommitRequest(q) \/ CommitUpdateRequest(q)
    \/ CommitSubmitRequest(q) \/ CommitCancelRequest(q)
    \/ CommitResubmitDeposit(q) \/ CommitResubmitWithdrawal(q) \/ CommitResubmitTransfer(q)
    \/ CommitReview(q) \/ CommitPost(q) \/ CommitReverse(q)

Next ==
    \/ \E q \in Request : Begins(q) \/ Commits(q) \/ Abandon(q)
    \/ \E c \in Chain, s \in Step : Toggle(c, s)

Spec == Init /\ [][Next]_vars

----------------------------------------------------------------------------
(* Properties *)

\* A transaction that went through a chain took three people, whatever the
\* order of their requests and of what they had read: one captured it,
\* another approved it, a third posted it (the segregation rules of 0069 and
\* 0072).  A deposit from the app may be approved and posted by one.
ThreePeople ==
    \A t \in Tx : tx[t].status = "posted" /\ chain[t] # NoChain =>
        \E c, a, p \in Officer :
            /\ Did(c, "captured", t) /\ Did(a, "approved", t) /\ Did(p, "posted", t)
            /\ c # a /\ c # p
            /\ a # p \/ (tx[t].kind = "deposit" /\ c = App)

\* The transfer row reads whatever the debit leg reads (review.ts; 0073,
\* "Mirrors the debit leg's status"), and a credit leg is never posted or
\* approved but with its debit leg.
TransferReadsDebitLeg ==
    \A t \in Tx : tx[t] # NoRow /\ tx[t].kind = "transfer_leg" =>
        IF tx[t].leg = "debit" THEN transfer[tx[t].transfer] = tx[t].status
        ELSE tx[t].status \in {"approved", "posted"} => transfer[tx[t].transfer] = tx[t].status

\* What leaves one account of a transfer is what arrives on the other, also
\* when its amount was corrected on the way.
LegsAgree ==
    \A t \in Tx : tx[t].status = "posted" =>
        \A u \in OtherLegs(t) : tx[u].status = "posted" =>
            tx[t].amount = tx[u].amount /\ DirectionsOf(t) \cap DirectionsOf(u) = {}

\* "A transfer posts both legs or neither" (0099, post_transaction), unless
\* a decision was written over its rejection, which had ended both legs.
BothLegsOrNeither ==
    \A t \in Tx : tx[t].status = "posted" =>
        \A u \in OtherLegs(t) :
            tx[u].status = "posted" \/ \E o \in Officer : Did(o, "rejected", t)

\* One call reverses both legs of a transfer (docs/ledger.md, Reversal): one
\* leg has as many reversals as the other, however many calls raced.
ReversalsOf(t) == {r \in Tx : tx[r].status = "posted" /\ tx[r].reverses = t}

ReversedTogether ==
    \A t \in Tx : tx[t].status = "posted" =>
        \A u \in OtherLegs(t) : tx[u].status = "posted" =>
            Cardinality(ReversalsOf(t)) = Cardinality(ReversalsOf(u))
=============================================================================
