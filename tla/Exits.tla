-------------------------------- MODULE Exits --------------------------------
(***************************************************************************)
(* How a holder leaves: lib/ledger/closures.ts, resignations.ts,           *)
(* demises.ts and claimants.ts.  An exit is a transaction with a life      *)
(* before its chain: its captor drafts it, files its papers and submits    *)
(* it, which puts the accounts it will settle into 'closing'; withdrawn or *)
(* refused, they are open again; posted, they are paid out and closed.     *)
(* Review decides and posts it, as it does any transaction.                *)
(*                                                                         *)
(* Papers and claimants are left out: they are filed before submitting and *)
(* nothing else reads them.                                                *)
(***************************************************************************)
EXTENDS Review

CONSTANTS
    ExitForms, \* the exits that may be drafted, by id
    ExitChain  \* the chain the matrix names for exits, or NoChain

\* What a start inserts: no leg of a transfer, and nothing carried over.
ExitForm(r) ==
    /\ r \in Row /\ WellFormed(r) /\ r.kind \in ExitKind
    /\ r.leg = "none" /\ r.transfer = NoTransfer /\ ~r.carried

ASSUME ExitFormsAssumption ==
    DOMAIN ExitForms = Tx /\ \A t \in Tx : \A r \in ExitForms[t] : ExitForm(r)
ASSUME ExitChainAssumption == ExitChain \in Chain \cup {NoChain}

ExitRoute == IF FirstStep(ExitChain) = NoStep THEN NoChain ELSE ExitChain

----------------------------------------------------------------------------
(* Reading *)

\* IN_FLIGHT: a request that is on its way, from its draft.
InFlight(t) == /\ tx[t].status \in {"draft", "submitted", "under_review", "approved", "returned"}
               /\ tx[t].kind \in ExitKind

\* What an exit would settle: its accounts that are not closed.
Open(r) == {a \in Covers(r) : account[a] # "closed"}

OnDeath(r) == r.kind = "closure" /\ r.claimant

\* Transactions submitted and not yet posted, on the accounts it looks at.
OnTheWay(t, accounts) ==
    {u \in Tx \ {t} : /\ tx[u].status \in {"submitted", "under_review", "approved"}
                      /\ tx[u].account \in accounts}

\* What it would pay as things stand.
Total(r) == BalanceOver(Open(r)) + (IF r.kind = "demise" THEN r.benefit ELSE 0)

\* refuseUnlessClosable and refuseUnlessAllClosable: nothing core, and no
\* other closure in flight for an account it covers or for the holder's death.
Closable(t, r, statuses) ==
    /\ Open(r) \cap Core = {}
    /\ account[r.account] # "closed"
    /\ \A a \in Open(r) : account[a] \in statuses
    /\ CanTransact(HolderOf[r.account])
    /\ \A u \in Tx \ {t} : InFlight(u) /\ tx[u].kind = "closure" =>
           /\ tx[u].account \notin Open(r)
           /\ OnDeath(tx[u]) => HolderOf[tx[u].account] # HolderOf[r.account]
    /\ OnTheWay(t, Open(r)) = {}

\* An active member whose accounts have the statuses and who has no exit of
\* this kind in flight: refuseUnlessResignable, refuseUnlessClaimable.
MayLeave(t, r, statuses) ==
    /\ HolderOf[r.account] \notin Customer
    /\ holder[HolderOf[r.account]] = "active"
    /\ Open(r) # {}
    /\ \A a \in Open(r) : account[a] \in statuses
    /\ \A u \in Tx \ {t} : InFlight(u) /\ tx[u].kind = r.kind =>
           HolderOf[tx[u].account] # HolderOf[r.account]

Resignable(t, r, statuses) == MayLeave(t, r, statuses) /\ OnTheWay(t, Covers(r)) = {}

Claimable(t, r, statuses) == MayLeave(t, r, statuses) /\ OnTheWay(t, Covers(r)) = {}

\* A draft or returned request is its captor's.
OwnEditable(o, t) ==
    /\ tx[t].status \in {"draft", "returned"}
    /\ tx[t].kind \in ExitKind
    /\ Did(o, "captured", t)

----------------------------------------------------------------------------
(* startClosure, startResignation, startDemise *)

\* Whoever starts it submits it, so must be able to.
Starts(q, o, t, r) ==
    /\ Total(r) >= 0
    /\ ExitRoute = NoChain => o \in Posters
    /\ Sits(q, [by |-> o, does |-> "start", tx |-> t,
                row |-> [r EXCEPT !.status = "draft", !.amount = Total(r)]])
    /\ UNCHANGED <<tables, work>>

\* On a death the holder is a customer, or no member any more.
BeginStartClosure(q, o, t) ==
    tx[t] = NoRow /\ \E r \in ExitForms[t] :
        /\ r.kind = "closure"
        /\ Closable(t, r, {"active"})
        /\ OnDeath(r) => \/ HolderOf[r.account] \in Customer
                         \/ holder[HolderOf[r.account]] # "active"
        /\ Starts(q, o, t, r)

BeginStartResignation(q, o, t) ==
    tx[t] = NoRow /\ \E r \in ExitForms[t] :
        r.kind = "resignation" /\ Resignable(t, r, {"active"}) /\ Starts(q, o, t, r)

BeginStartDemise(q, o, t) ==
    tx[t] = NoRow /\ \E r \in ExitForms[t] :
        r.kind = "demise" /\ Claimable(t, r, {"active"}) /\ Starts(q, o, t, r)

Started(q, kind) ==
    /\ desk[q].does = "start"
    /\ desk[q].row.kind = kind
    /\ tx[desk[q].tx] = NoRow
    /\ tx' = [tx EXCEPT ![desk[q].tx] = desk[q].row]
    /\ audit' = audit \cup Records(desk[q].by, "captured", {desk[q].tx})
    /\ Sits(q, Idle)
    /\ UNCHANGED <<account, holder, entry, cache, chain, step, transfer, enabled>>

CommitStartClosure(q) == Started(q, "closure")

CommitStartResignation(q) == Started(q, "resignation")

CommitStartDemise(q) == Started(q, "demise")

----------------------------------------------------------------------------
(* submitClosure, submitResignation, submitDemise *)

Sends(q, o, t) ==
    /\ Total(tx[t]) >= 0
    /\ ExitRoute = NoChain => o \in Posters
    /\ Sits(q, [by |-> o, does |-> "submit", tx |-> t, amount |-> Total(tx[t]),
                settles |-> Open(tx[t]), again |-> tx[t].status = "returned",
                chain |-> ExitRoute, step |-> FirstStep(ExitRoute),
                leftChain |-> chain[t], leftStep |-> step[t]])
    /\ UNCHANGED <<tables, work>>

Closing == {"active", "closing"}

BeginSubmitClosure(q, o, t) ==
    /\ OwnEditable(o, t)
    /\ tx[t].kind = "closure"
    /\ Closable(t, tx[t], Closing)
    /\ Sends(q, o, t)

BeginSubmitResignation(q, o, t) ==
    /\ OwnEditable(o, t)
    /\ tx[t].kind = "resignation"
    /\ Resignable(t, tx[t], Closing)
    /\ Sends(q, o, t)

BeginSubmitDemise(q, o, t) ==
    /\ OwnEditable(o, t)
    /\ tx[t].kind = "demise"
    /\ Claimable(t, tx[t], Closing)
    /\ Sends(q, o, t)

\* What it settles is closing from here on, the figure as it was read.
Sent(q, kind) ==
    /\ desk[q].does = "submit"
    /\ LET d == desk[q]
           rows == [tx EXCEPT ![d.tx].amount = d.amount]
           accts == [a \in Account |-> IF a \in d.settles /\ account[a] = "active"
                                       THEN "closing" ELSE account[a]]
       IN  /\ tx[d.tx].kind = kind
           /\ tx[d.tx].status # "posted"
           /\ IF d.again THEN SubmitAgain(d, rows, accts)
              ELSE Submit(d.by, d.tx, [rows EXCEPT ![d.tx].status = "submitted"], accts,
                          d.chain, d.step, {})
    /\ Sits(q, Idle)
    /\ UNCHANGED enabled

CommitSubmitClosure(q) == Sent(q, "closure")

CommitSubmitResignation(q) == Sent(q, "resignation")

CommitSubmitDemise(q) == Sent(q, "demise")

----------------------------------------------------------------------------
(* cancelClosure, cancelResignation, cancelDemise *)

BeginCancel(q, o, t) ==
    /\ OwnEditable(o, t)
    /\ Sits(q, [by |-> o, does |-> "cancel", tx |-> t])
    /\ UNCHANGED <<tables, work>>

\* What reads 'closing' among what it covers opens again.
Withdrawn(q, kind) ==
    /\ desk[q].does = "cancel"
    /\ LET t == desk[q].tx
       IN  /\ tx[t].kind = kind
           /\ tx[t].status # "posted"
           /\ tx' = [tx EXCEPT ![t].status = "cancelled"]
           /\ step' = [step EXCEPT ![t] = NoStep]
           /\ account' = Reopened(tx[t])
    /\ Sits(q, Idle)
    /\ UNCHANGED <<holder, entry, cache, chain, transfer, enabled, audit>>

CommitCancelClosure(q) == Withdrawn(q, "closure")

CommitCancelResignation(q) == Withdrawn(q, "resignation")

CommitCancelDemise(q) == Withdrawn(q, "demise")

----------------------------------------------------------------------------

ExitBegins(q, o) ==
    /\ desk[q] = Idle
    /\ \E t \in Tx :
           \/ BeginStartClosure(q, o, t) \/ BeginSubmitClosure(q, o, t)
           \/ BeginStartResignation(q, o, t) \/ BeginSubmitResignation(q, o, t)
           \/ BeginStartDemise(q, o, t) \/ BeginSubmitDemise(q, o, t)
           \/ BeginCancel(q, o, t)

ExitCommits(q) ==
    \/ CommitStartClosure(q) \/ CommitSubmitClosure(q) \/ CommitCancelClosure(q)
    \/ CommitStartResignation(q) \/ CommitSubmitResignation(q) \/ CommitCancelResignation(q)
    \/ CommitStartDemise(q) \/ CommitSubmitDemise(q) \/ CommitCancelDemise(q)

ExitNext ==
    \/ Next
    \/ \E q \in Request : ExitCommits(q) \/ \E o \in Captors : ExitBegins(q, o)

ExitSpec == Init /\ [][ExitNext]_vars

----------------------------------------------------------------------------
(* Properties *)

\* An account that is closing is closing for an exit still on its way, which
\* will close it or open it again: none is left shut for good, whichever
\* requests crossed.
ClosingForAnExit ==
    \A a \in Account : account[a] = "closing" =>
        \E t \in Tx : InFlight(t) /\ tx[t].status # "draft" /\ a \in Covers(tx[t])

\* "Nothing is left on a closed account" (docs/ledger.md, Closing an account):
\* no money stays on one, whichever exits and deposits crossed.  (But on what
\* a death's closure names: refused, which opens it again, and then approved
\* over the refusal, it closes that account as it stands.)
NothingLeftOnClosed ==
    \A a \in Account : account[a] = "closed" =>
        \/ cache[a].balance <= 0
        \/ \E t \in Tx : /\ tx[t].status = "posted"
                         /\ OnDeath(tx[t])
                         /\ tx[t].account = a

\* When a holder is marked demised, no draft and no returned transaction of
\* theirs survives the database transaction that marked them
\* (cancelDraftsOnDeath, called after markDeceasedOnceAllClosed).
NoDraftOutlives ==
    [][\A h \in Holder : holder[h] # "demised" /\ holder'[h] = "demised" =>
           DraftsOf(h, tx') = {}]_vars
=============================================================================
