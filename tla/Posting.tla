------------------------------ MODULE Posting ------------------------------
(***************************************************************************)
(* The ledger's tables and post_transaction(), the one road to a balance   *)
(* (migrations/0064_ledger.sql; the function as last replaced by           *)
(* migrations/0099_closure_on_death_covers_every_account.sql).             *)
(*                                                                         *)
(* The module has no specification of its own: Ledger, Review and Exits    *)
(* extend it and each say which database transactions they run.  PostAll   *)
(* takes the transaction and account tables as the statements before the   *)
(* call left them, so that a handler that updates a row and then posts it  *)
(* is one step, as it is one database transaction.                         *)
(***************************************************************************)
EXTENDS Integers, Sequences, FiniteSets, FiniteSetsExt

CONSTANTS
    Tx,         \* ids a row of the transaction table may take
    Account,    \* the accounts
    Holder,     \* members and customers
    Transfer,   \* ids a row of the transfer table may take
    NoTx,       \* no transaction
    NoTransfer, \* no transfer
    HolderOf,   \* who holds each account
    Core,       \* accounts of a membership-default type: Shares and MSA
    Floor       \* the minimum_balance of each account's type

ASSUME NoTxAssumption == NoTx \notin Tx
ASSUME NoTransferAssumption == NoTransfer \notin Transfer
ASSUME HolderOfAssumption == HolderOf \in [Account -> Holder]
ASSUME FloorAssumption == Floor \in [Account -> Nat]

VARIABLES
    tx,      \* the transaction table, by id
    account, \* the status of each account
    holder,  \* the status of each member or customer
    entry,   \* account_entry: each account's entries, in posting order
    cache    \* account_balance: each account's cached balance and entry count

tables == <<tx, account, holder, entry, cache>>

----------------------------------------------------------------------------
(* Vocabulary *)

Kind == {"deposit", "withdrawal", "transfer_leg", "closure", "resignation",
         "demise", "reversal"}

\* The kinds that close accounts as they pay out.
ExitKind == {"closure", "resignation", "demise"}

Status == {"draft", "submitted", "under_review", "approved", "posted",
           "returned", "rejected", "cancelled"}

AccountStatus == {"pending", "active", "inactive", "dormant", "frozen",
                  "closing", "closed"}

HolderStatus == {"active", "dormant", "resigned", "demised", "closed"}

Direction == {"credit", "debit"}

Opposite(d) == IF d = "credit" THEN "debit" ELSE "credit"

Signed(d, amount) == IF d = "credit" THEN amount ELSE -amount

NoRow == [status |-> "none"]

Row == [kind     : Kind,
        status   : Status,
        account  : Account,
        amount   : Nat,
        leg      : Direction \cup {"none"},      \* leg_direction
        transfer : Transfer \cup {NoTransfer},   \* transfer_id
        reverses : Tx \cup {NoTx},               \* reverses_id
        carried  : BOOLEAN,                      \* brings in a Phase 1 receipt line
        claimant : BOOLEAN,                      \* paid to a deceased holder's claimant
        benefit  : Nat]                          \* takaful_benefit

\* An account_entry row, with the balance_after its financial_event carries.
Entry == [tx : Tx, direction : Direction, amount : Nat, after : Int]

\* Columns the check constraints tie together: a zero amount is an exit's
\* alone, a leg names its transfer, a reversal its original, a claim its
\* claimant.
WellFormed(r) ==
    /\ r.amount = 0 => r.kind \in ExitKind
    /\ (r.kind = "transfer_leg") <=> (r.leg # "none" /\ r.transfer # NoTransfer)
    /\ (r.kind = "reversal") <=> (r.reverses # NoTx)
    /\ r.kind = "demise" => r.claimant
    /\ r.claimant => r.kind \in {"demise", "closure"}

TablesOK ==
    /\ tx \in [Tx -> Row \cup {NoRow}]
    /\ \A t \in Tx : tx[t] # NoRow => WellFormed(tx[t])
    /\ account \in [Account -> AccountStatus]
    /\ holder \in [Holder -> HolderStatus]
    /\ entry \in [Account -> Seq(Entry)]
    /\ cache \in [Account -> [balance : Int, entries : Nat]]

\* Empty books: no transaction, no entry, every account open.
EmptyTables ==
    /\ tx = [t \in Tx |-> NoRow]
    /\ account = [a \in Account |-> "active"]
    /\ holder = [h \in Holder |-> "active"]
    /\ entry = [a \in Account |-> <<>>]
    /\ cache = [a \in Account |-> [balance |-> 0, entries |-> 0]]

----------------------------------------------------------------------------
(* What a posting moves.  rows and accts are the transaction and account   *)
(* tables as the database transaction has them when it calls.              *)

\* A resignation, a claim and a closure on a death settle every account
\* that submitting them put into 'closing', under the one transaction.
SettlesTogether(r) ==
    r.kind \in {"resignation", "demise"} \/ (r.kind = "closure" /\ r.claimant)

\* The accounts an exit is about: the holder's - the core ones, for a
\* resignation - or the one that is closing.
Covers(r) ==
    IF SettlesTogether(r)
    THEN {a \in Account : /\ HolderOf[a] = HolderOf[r.account]
                          /\ r.kind = "resignation" => a \in Core}
    ELSE {r.account}

Leaving(r, accts) == {a \in Covers(r) : accts[a] = "closing"}

BalanceOver(S) == MapThenSumSet(LAMBDA a : cache[a].balance, S)

\* Where a transaction's entries are, and which way they moved money.
PlacesOf(t) ==
    UNION {{<<a, i>> : i \in {j \in DOMAIN entry[a] : entry[a][j].tx = t}} : a \in Account}

DirectionsOf(t) == {entry[p[1]][p[2]].direction : p \in PlacesOf(t)}

DirectionOf(r) ==
    CASE r.kind = "deposit"      -> "credit"
      [] r.kind = "transfer_leg" -> r.leg
      [] r.kind = "reversal"     -> Opposite(CHOOSE d \in DirectionsOf(r.reverses) : TRUE)
      [] OTHER                   -> "debit"

\* Which account moves by how much and which way: one movement for most
\* kinds, none when the amount is zero, one for each account with money on
\* it when the accounts are settled together.
Movements(t, r, accts) ==
    IF SettlesTogether(r)
    THEN {[account |-> a, tx |-> t, direction |-> "debit", amount |-> cache[a].balance] :
              a \in {b \in Leaving(r, accts) : cache[b].balance > 0}}
    ELSE {m \in {[account |-> r.account, tx |-> t, direction |-> DirectionOf(r),
                  amount |-> r.amount]} : m.amount > 0}

----------------------------------------------------------------------------
(* post_transaction *)

OpenTo(r, accts) ==
    \/ accts[r.account] = "active"
    \/ r.carried
    \/ r.kind \in ExitKind /\ accts[r.account] = "closing"

\* An exit pays out what its accounts hold, to the cent, and a claim its
\* benefit besides.
SettledAmount(r, accts) ==
    BalanceOver(Leaving(r, accts)) + (IF r.kind = "demise" THEN r.benefit ELSE 0)

\* Mutant: a single account is not looked at again.
PaysTogether(r, accts) ==
    SettlesTogether(r) => r.amount = SettledAmount(r, accts)

PaysWhatIsThere(r, accts) ==
    /\ SettlesTogether(r) => r.amount = SettledAmount(r, accts)
    /\ r.kind = "closure" /\ ~r.claimant => r.amount = cache[r.account].balance

\* Mutant: only withdrawals hold the floor.
WithdrawalKeepsFloor(r) ==
    r.kind = "withdrawal" => cache[r.account].balance - r.amount >= Floor[r.account]

KeepsFloor(r) ==
    r.kind = "withdrawal" \/ (r.kind = "transfer_leg" /\ r.leg = "debit")
        => cache[r.account].balance - r.amount >= Floor[r.account]

\* Mutant: a reversal may move more than its original.
UndoesAny(r, rows) ==
    r.kind = "reversal" =>
        /\ rows[r.reverses].status = "posted"
        /\ rows[r.reverses].account = r.account
        /\ DirectionsOf(r.reverses) # {}

\* A reversal moves back, on the same account, no more than its original.
Undoes(r, rows) ==
    r.kind = "reversal" =>
        LET original == rows[r.reverses]
        IN  /\ original.status = "posted"
            /\ original.account = r.account
            /\ r.amount <= original.amount
            /\ DirectionsOf(r.reverses) # {}

\* Mutant: whatever the row's status.
CanPostAgain(t, rows, accts) ==
    /\ rows[t] # NoRow
    /\ OpenTo(rows[t], accts)
    /\ PaysWhatIsThere(rows[t], accts)
    /\ KeepsFloor(rows[t])
    /\ Undoes(rows[t], rows)

CanPost(t, rows, accts) ==
    /\ rows[t].status \in {"submitted", "approved"}
    /\ OpenTo(rows[t], accts)
    /\ PaysWhatIsThere(rows[t], accts)
    /\ KeepsFloor(rows[t])
    /\ Undoes(rows[t], rows)

\* Posting a transfer's debit leg posts its credit leg in the same call,
\* if that leg can still be posted.
CreditLegOf(t, rows) ==
    {c \in Tx : /\ rows[c].status \in {"submitted", "approved"}
                /\ rows[c].kind = "transfer_leg"
                /\ rows[c].leg = "credit"
                /\ rows[t].kind = "transfer_leg" /\ rows[t].leg = "debit"
                /\ rows[c].transfer = rows[t].transfer}

\* (Mutant: the credit leg waits for a call of its own.)
PostedAlone(t, rows) == {t}

PostedWith(t, rows) == {t} \cup CreditLegOf(t, rows)

\* The account statuses an exit leaves behind.
ClosedBy(r, accts) ==
    (IF SettlesTogether(r) THEN Leaving(r, accts) ELSE {})
        \cup (IF r.kind = "closure" THEN {r.account} ELSE {})

Ends(r, h) == r.kind \in {"resignation", "demise"} /\ HolderOf[r.account] = h

\* What the movements of one posting leave on an account: its next entry,
\* and the cache brought up to it.
MovedOn(a, M) == CHOOSE m \in M : m.account = a

Moved(M) == {m.account : m \in M}

BalanceAfter(a, M) ==
    cache[a].balance + Signed(MovedOn(a, M).direction, MovedOn(a, M).amount)

\* Mutant: the event carries the balance read before the entry.
EntryBefore(a, M) == [tx        |-> MovedOn(a, M).tx,
                      direction |-> MovedOn(a, M).direction,
                      amount    |-> MovedOn(a, M).amount,
                      after     |-> cache[a].balance]

EntryAfter(a, M) == [tx        |-> MovedOn(a, M).tx,
                     direction |-> MovedOn(a, M).direction,
                     amount    |-> MovedOn(a, M).amount,
                     after     |-> BalanceAfter(a, M)]

\* Mutant: the cache forgets to count.
CacheUncounted(a, M) == [balance |-> BalanceAfter(a, M),
                         entries |-> cache[a].entries]

CacheAfter(a, M) == [balance |-> BalanceAfter(a, M),
                     entries |-> cache[a].entries + 1]

RowsAfter(S, rows) ==
    [t \in Tx |-> IF t \in S THEN [rows[t] EXCEPT !.status = "posted"] ELSE rows[t]]

AccountsAfter(S, rows, accts) ==
    [a \in Account |-> IF \E t \in S : a \in ClosedBy(rows[t], accts) THEN "closed" ELSE accts[a]]

HoldersAfter(S, rows) ==
    [h \in Holder |-> IF \E t \in S : Ends(rows[t], h)
                      THEN IF \E t \in S : rows[t].kind = "demise" THEN "demised" ELSE "resigned"
                      ELSE holder[h]]

\* Every transaction of S posts, or none does: one database transaction.
\* Those posted together - the two legs of a transfer, or their reversals -
\* are on different accounts, so the order of the calls does not show.
Enter(S, rows, accts) ==
    LET M == UNION {Movements(t, rows[t], accts) : t \in S}
    IN  /\ \A t \in S : CanPost(t, rows, accts)
        /\ \A s, t \in S : s # t => rows[s].account # rows[t].account
        /\ entry' = [a \in Account |->
               IF a \in Moved(M) THEN Append(entry[a], EntryAfter(a, M)) ELSE entry[a]]
        /\ cache' = [a \in Account |->
               IF a \in Moved(M) THEN CacheAfter(a, M) ELSE cache[a]]
        /\ account' = AccountsAfter(S, rows, accts)

PostAll(S, rows, accts) ==
    /\ Enter(S, rows, accts)
    /\ tx' = RowsAfter(S, rows)
    /\ holder' = HoldersAfter(S, rows)

----------------------------------------------------------------------------
(* Reading the ledger *)

\* ledger_drift's figure for an account: the sum of its entries.
EntrySum(a) == SumFunction([i \in DOMAIN entry[a] |->
                   Signed(entry[a][i].direction, entry[a][i].amount)])
=============================================================================
