------------------------------- MODULE Ledger -------------------------------
(***************************************************************************)
(* The ledger as the database keeps it, whatever the application does.     *)
(* The application role inserts and updates transaction rows within their  *)
(* constraints and guard_transaction (migrations/0066), moves account      *)
(* statuses freely, and has no other way to an entry or a balance than     *)
(* post_transaction.  So each action here is a statement the grants, the   *)
(* check constraints and the triggers let through, in any order, by        *)
(* anyone.                                                                 *)
(***************************************************************************)
EXTENDS Posting

CONSTANTS
    Requests,     \* the rows each id may be inserted as
    WorkStatus,   \* the statuses an update may leave an unposted row in
    Amounts,      \* the amounts an update may leave it with
    OpenStatus    \* the account statuses the application may set

ASSUME RequestsAssumption ==
    Requests \in [Tx -> SUBSET {r \in Row : /\ WellFormed(r)
                                            /\ r.status \in {"draft", "submitted"}}]
ASSUME WorkStatusAssumption == WorkStatus \subseteq Status \ {"posted"}
ASSUME AmountsAssumption == Amounts \subseteq Nat
ASSUME OpenStatusAssumption == OpenStatus \subseteq AccountStatus \ {"closed"}

vars == tables

Init == EmptyTables

\* A row is inserted: captured by an officer, a member or a carry-over.
Insert(t) ==
    /\ tx[t] = NoRow
    /\ \E r \in Requests[t] : tx' = [tx EXCEPT ![t] = r]
    /\ UNCHANGED <<account, holder, entry, cache>>

\* Mutants of Update: without the check constraints, and without the guard.
UpdateUnchecked(t) ==
    /\ tx[t] # NoRow
    /\ tx[t].status # "posted"
    /\ \E s \in WorkStatus, amount \in Amounts :
           tx' = [tx EXCEPT ![t].status = s, ![t].amount = amount]
    /\ UNCHANGED <<account, holder, entry, cache>>

UpdatePosted(t) ==
    /\ tx[t] # NoRow
    /\ \E s \in WorkStatus, amount \in Amounts :
           LET r == [tx[t] EXCEPT !.status = s, !.amount = amount]
           IN  WellFormed(r) /\ tx' = [tx EXCEPT ![t] = r]
    /\ UNCHANGED <<account, holder, entry, cache>>

\* A working record is updated: its status and amount may become anything,
\* its identity stays, and once posted nothing changes.
Update(t) ==
    /\ tx[t] # NoRow
    /\ tx[t].status # "posted"
    /\ \E s \in WorkStatus, amount \in Amounts :
           LET r == [tx[t] EXCEPT !.status = s, !.amount = amount]
           IN  WellFormed(r) /\ tx' = [tx EXCEPT ![t] = r]
    /\ UNCHANGED <<account, holder, entry, cache>>

\* Only a draft can be deleted.
Delete(t) ==
    /\ tx[t].status = "draft"
    /\ tx' = [tx EXCEPT ![t] = NoRow]
    /\ UNCHANGED <<account, holder, entry, cache>>

\* The application sets an account's status; reopening a closed one is such
\* an update too.
SetAccountStatus(a) ==
    /\ \E s \in OpenStatus \ {account[a]} : account' = [account EXCEPT ![a] = s]
    /\ UNCHANGED <<tx, holder, entry, cache>>

Post(t) ==
    /\ tx[t] # NoRow
    /\ PostAll(PostedWith(t, tx), tx, account)

Next ==
    \/ \E t \in Tx : Insert(t) \/ Update(t) \/ Delete(t) \/ Post(t)
    \/ \E a \in Account : SetAccountStatus(a)

Spec == Init /\ [][Next]_vars

----------------------------------------------------------------------------
(* Properties *)

\* Every table holds rows its check constraints allow (migrations/0064, 0066,
\* 0079), whatever the updates.
TypeOK == TablesOK

\* ledger_drift() finds nothing: each account's cached balance and entry
\* count are the sum and the number of its entries, after any order of
\* postings of any kind.
NoDrift ==
    \A a \in Account : /\ cache[a].balance = EntrySum(a)
                       /\ cache[a].entries = Len(entry[a])

\* The statement's running balance: each entry carries the balance after the
\* one before it moved by its own amount, and the last one's is the cache.
BalanceBefore(a, i) == IF i = 1 THEN 0 ELSE entry[a][i - 1].after

RunningOn(a) ==
    /\ \A i \in DOMAIN entry[a] :
           entry[a][i].after = BalanceBefore(a, i)
                               + Signed(entry[a][i].direction, entry[a][i].amount)
    /\ cache[a].balance = BalanceBefore(a, Len(entry[a]) + 1)

RunningBalance == \A a \in Account : RunningOn(a)

\* No withdrawal and no transfer ever left an account below its type's
\* minimum balance, however many were on their way at once (0099: read at
\* posting, not at capture).
FloorUnder(a, e) ==
    tx[e.tx].kind \in {"withdrawal", "transfer_leg"} /\ e.direction = "debit"
        => e.after >= Floor[a]

FloorHeld == \A a \in Account : \A i \in DOMAIN entry[a] : FloorUnder(a, entry[a][i])

\* A reversal moved the other way from what it names, on the same account,
\* and no more than it - also when what it names is a reversal.  (An exit is
\* never reversed: reversals.ts refuses it.)
ReversalUndoes ==
    \A a \in Account : \A i \in DOMAIN entry[a] :
        LET original == tx[entry[a][i].tx].reverses
        IN  original # NoTx /\ tx[original].kind \notin ExitKind =>
                \E j \in 1 .. i - 1 :
                    /\ entry[a][j].tx = original
                    /\ entry[a][j].direction = Opposite(entry[a][i].direction)
                    /\ entry[a][i].amount <= entry[a][j].amount

\* What is posted is never edited: not the transaction, not an entry before
\* the last; a mistake is corrected by a later transaction.
PostedIsFinal ==
    [][/\ \A t \in Tx : tx[t].status = "posted" => tx'[t] = tx[t]
       /\ \A a \in Account : /\ Len(entry'[a]) >= Len(entry[a])
                             /\ \A i \in DOMAIN entry[a] : entry'[a][i] = entry[a][i]]_vars

\* The tables implement the books: seen through the posted transactions, the
\* entries and the cache, every statement is a posting of Books or nothing.
Posted == {t \in Tx : tx[t].status = "posted"}

LedgerBooks == INSTANCE Books WITH posted <- Posted

ImplementsBooks == LedgerBooks!Spec
=============================================================================
