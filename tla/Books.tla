------------------------------- MODULE Books -------------------------------
(***************************************************************************)
(* What the ledger promises whoever reads it (docs/ledger.md, "What cannot *)
(* change" and "Order"), with none of the kinds, chains or account rules:  *)
(* every account's entries are a journal that only grows, each entry is    *)
(* written by a transaction as it becomes posted and never afterwards, a   *)
(* posted transaction stays posted, and the cached balance is where the    *)
(* journal's running balance ends.                                         *)
(***************************************************************************)
EXTENDS Integers, Sequences

CONSTANTS Tx, Account

VARIABLES
    posted, \* the transactions that have posted
    entry,  \* each account's journal
    cache   \* each account's cached balance and entry count

vars == <<posted, entry, cache>>

Init ==
    /\ posted = {}
    /\ entry = [a \in Account |-> <<>>]
    /\ cache = [a \in Account |-> [balance |-> 0, entries |-> 0]]

\* What one step may do to one account's journal: nothing, or add the next
\* entry, for a transaction of S, carrying the balance it leaves.
Untouched(a) ==
    /\ entry'[a] = entry[a]
    /\ cache'[a] = cache[a]

Grows(a, S) ==
    \E e \in {entry'[a][Len(entry[a]) + 1]} :
        /\ entry'[a] = Append(entry[a], e)
        /\ e.tx \in S
        /\ e.amount > 0
        /\ e.after = cache[a].balance
                     + (IF e.direction = "credit" THEN e.amount ELSE -e.amount)
        /\ cache'[a] = [balance |-> e.after, entries |-> cache[a].entries + 1]

\* The transactions of S post together; each account moves at most once.
Post(S) ==
    /\ posted' = posted \cup S
    /\ \A a \in Account : Untouched(a) \/ Grows(a, S)

Next == \E S \in SUBSET (Tx \ posted) : Post(S)

Spec == Init /\ [][Next]_vars
=============================================================================
