-------------------------------- MODULE Fees --------------------------------
(***************************************************************************)
(* Membership fees: receipt numbers, payments, refunds and voids, fees     *)
(* paid by a transfer from a member, and the cash drawers they go through  *)
(* (lib/payments/receipts.ts, payments.ts, fee-transfers.ts,               *)
(* fee-transfer-settlement.ts, lib/cash/sessions.ts).                      *)
(*                                                                         *)
(* A handler reads and refuses first (Begin...), takes its receipt number  *)
(* in a commit of its own, and then runs one database transaction          *)
(* (Commit...), which locks and reads again only what is written there.    *)
(* What fails, even after the commit, gives its number up (Abandons); a    *)
(* process that dies does not (Die).                                       *)
(*                                                                         *)
(* Amounts are sets of fee components, one unit each.  The workflow that   *)
(* decides the application is in Applications; here it may be decided at   *)
(* any moment.  The payer's account is in Posting and Review: a fee        *)
(* transfer here is its status.                                            *)
(***************************************************************************)
EXTENDS Intake, Integers, FiniteSets

CONSTANTS
    Opening,      \* applications that open an account for an existing holder
    Component,    \* what the fee schedule asks for
    Earned,       \* components not returned once the application is approved
    Carries,      \* components that become a deposit on an account opened
    Cashiers,     \* officers with payment.record
    Treasurers,   \* officers with payment.refund, payment.void and disbursement
    FeeTransfer,  \* ids a row of fee_transfer may take
    Receipts,     \* how many receipt numbers are handed out
    Drawer        \* ids a row of cash_session may take

ASSUME ComponentAssumption ==
    IsFiniteSet(Component) /\ Component # {} /\ Earned \subseteq Component /\ Carries \subseteq Component
ASSUME ReceiptsAssumption == Receipts \in Nat
ASSUME OpeningAssumption == Opening \subseteq Application
ASSUME FeeOfficerAssumption == Cashiers \subseteq Officer /\ Treasurers \subseteq Officer

VARIABLES
    opened,    \* applications whose accounts have been opened
    receipt,   \* the state of each receipt number
    payment,   \* the payment each number was issued for
    fees,      \* fee_transfer rows, with the status of their transaction
    drawer     \* cash_session rows

money == <<receipt, payment, fees, drawer>>
feeVars == <<status, opened, money, desk>>

Receipt == 1..Receipts
NoReceipt == 0
NoDrawer == "none"
Method == {"cash", "cheque", "member_transfer"}
Offered == {"cash", "cheque"}
Live == {"submitted", "under_review", "approved", "returned"}
NoPayment == [kind |-> "none"]
NoTransfer == [status |-> "none"]

Payment == [kind : {"payment", "refund"}, app : Application, of : Receipt \cup {NoReceipt},
            lines : SUBSET Component, method : Method, by : Officer,
            drawer : Drawer \cup {NoDrawer}, voided : BOOLEAN, carried : SUBSET Component]

FeeRow == [app : Application, by : Officer, status : Live \cup {"posted", "cancelled", "rejected"},
           paid : Receipt \cup {NoReceipt}, receipt : Receipt \cup {NoReceipt}, reversed : BOOLEAN]

EmptyTill ==
    /\ receipt = [r \in Receipt |-> "unused"]
    /\ payment = [r \in Receipt |-> NoPayment]
    /\ fees = [x \in FeeTransfer |-> NoTransfer]
    /\ drawer = [d \in Drawer |-> [state |-> "unused"]]
    /\ desk = [q \in Request |-> Idle]

----------------------------------------------------------------------------
(* Reading *)

Issued(p) == {r \in Receipt : p[r] # NoPayment}
Takings(p, a) == {r \in Issued(p) : p[r].kind = "payment" /\ p[r].app = a /\ ~p[r].voided}
RefundsOf(p, r) == {s \in Issued(p) : p[s].of = r /\ ~p[s].voided}

\* The units on a set of payments, counted one by one.
Units(p, S) == Cardinality({unit \in S \X Component : unit[2] \in p[unit[1]].lines})

\* What is still owed back on a payment: refundableComponents.
Refundable(r) ==
    payment[r].lines
        \ (UNION {payment[s].lines : s \in RefundsOf(payment, r)}
           \cup (IF status[payment[r].app] = "approved" THEN Earned ELSE {}))

LiveTransfers(a) ==
    {x \in FeeTransfer : /\ fees[x].status \in Live
                         /\ fees[x].app = a /\ fees[x].paid = NoReceipt}

OpenDrawers(o) == {d \in Drawer : drawer[d].state = "open" /\ drawer[d].of = o}

MayHandle(o, method) == method = "cash" => OpenDrawers(o) # {}

----------------------------------------------------------------------------
(* Writing *)

\* allocateReceiptNumber: the next numbers of the sequence, each committed.
Unused == {r \in Receipt : receipt[r] = "unused"}
Left(n) == Cardinality(Unused) >= n
Fresh(n) == {r \in Unused : Cardinality(Unused \cap 1..r) <= n}
Allocates(S) == receipt' = [r \in Receipt |-> IF r \in S THEN "allocated" ELSE receipt[r]]

\* attribute_payment_cash_session: cash goes in its recorder's open drawer.
DrawerFor(o, method) == IF method = "cash" THEN OpenDrawers(o) ELSE {NoDrawer}

Taken(a, lines, method, o, d) ==
    [kind |-> "payment", app |-> a, of |-> NoReceipt, lines |-> lines, method |-> method,
     by |-> o, drawer |-> d, voided |-> FALSE, carried |-> {}]

Returned(r, lines, method, o, d) ==
    [Taken(payment[r].app, lines, method, o, d) EXCEPT !.kind = "refund", !.of = r]

\* post_opening_balances: the lines of what was taken, then of what was
\* returned, that are not on the accounts of the application yet.
Carried(p, a) ==
    LET taken == [r \in Receipt |->
                    IF r \in Takings(p, a) THEN [p[r] EXCEPT !.carried = @ \cup (p[r].lines \cap Carries)]
                    ELSE p[r]]
    IN  [r \in Receipt |->
            IF p[r] # NoPayment /\ p[r].kind = "refund" /\ p[r].app = a /\ ~p[r].voided
            THEN [p[r] EXCEPT !.carried = @ \cup (p[r].lines \cap taken[p[r].of].carried)]
            ELSE taken[r]]

CarriedIfOpen(p, a) == IF a \in opened THEN Carried(p, a) ELSE p

\* A request that fails gives its numbers up; so does one that fails only
\* after its commit.
Abandoning(S) == IF S = {} THEN Idle ELSE [does |-> "abandon", receipts |-> S]

\* The numbers a request holds.
Held(request) == IF request.does \in {"record", "refund", "settle", "abandon"} THEN request.receipts ELSE {}

\* A commit that answers, or whose answer is lost.
Answers(q) == \E next \in {Idle, Abandoning(Held(desk[q]))} : Sits(q, next)

\* Any request may fail instead of committing: a guard of its database
\* transaction, or the database.
Fails(q) ==
    /\ desk[q].does \in {"record", "refund", "transfer", "settle", "void", "voids", "close"}
    /\ Sits(q, Abandoning(Held(desk[q])))
    /\ UNCHANGED <<status, opened, money>>

Die(q) ==
    /\ Dies(q)
    /\ UNCHANGED <<status, opened, money>>

\* Mutant of Abandons: whatever the number has become.
AbandonsAny(q) ==
    /\ desk[q].does = "abandon"
    /\ receipt' = [r \in Receipt |-> IF r \in desk[q].receipts THEN "abandoned" ELSE receipt[r]]
    /\ Sits(q, Idle)
    /\ UNCHANGED <<status, opened, payment, fees, drawer>>

\* abandonReceiptNumber
Abandons(q) ==
    /\ desk[q].does = "abandon"
    /\ receipt' = [r \in Receipt |->
                     IF r \in desk[q].receipts /\ receipt[r] = "allocated" THEN "abandoned" ELSE receipt[r]]
    /\ Sits(q, Idle)
    /\ UNCHANGED <<status, opened, payment, fees, drawer>>

----------------------------------------------------------------------------
(* Fees paid *)

\* recordPayment and recordAccountOpeningPayment, up to the number.  Only
\* the first asks about a fee transfer.
BeginRecord(q, a, o, method) ==
    /\ desk[q] = Idle /\ o \in Cashiers
    /\ Undecided(a) /\ Takings(payment, a) = {}
    /\ a \notin Opening => LiveTransfers(a) = {}
    /\ MayHandle(o, method)
    /\ Left(1)
    /\ Allocates(Fresh(1))
    /\ Sits(q, [does |-> "record", app |-> a, by |-> o, method |-> method, receipts |-> Fresh(1)])
    /\ UNCHANGED <<status, opened, payment, fees, drawer>>

\* Mutant of NotReceipted: the application is locked but not read again.
AnyReceipted(a) == TRUE

\* insertFeePayment: asked again with the application locked.
NotReceipted(a) == Takings(payment, a) = {}

\* A decision made in between does not stop it.
CommitRecord(q) ==
    /\ desk[q].does = "record"
    /\ NotReceipted(desk[q].app)
    /\ \E r \in desk[q].receipts, d \in DrawerFor(desk[q].by, desk[q].method) :
        /\ payment' = [payment EXCEPT ![r] =
                        Taken(desk[q].app, Component, desk[q].method, desk[q].by, d)]
        /\ receipt' = [receipt EXCEPT ![r] = "issued"]
    /\ Answers(q)
    /\ UNCHANGED <<status, opened, fees, drawer>>

----------------------------------------------------------------------------
(* Fees given back *)

\* refundPayment, up to the number.
BeginRefund(q, r, o, method, lines) ==
    /\ desk[q] = Idle /\ o \in Treasurers
    /\ MayHandle(o, method)
    /\ payment[r] # NoPayment /\ payment[r].kind = "payment" /\ ~payment[r].voided
    /\ payment[r].app \notin Opening
    /\ payment[r].by # o
    /\ lines # {} /\ lines \subseteq Refundable(r)
    /\ Left(1)
    /\ Allocates(Fresh(1))
    /\ Sits(q, [does |-> "refund", of |-> r, by |-> o, method |-> method, lines |-> lines,
                receipts |-> Fresh(1)])
    /\ UNCHANGED <<status, opened, payment, fees, drawer>>

\* Mutant of WithinTaken: the original locked, nothing counted again.
WithinAnything(r, lines) == TRUE

\* The original is locked and the total counted again: not the components,
\* and not whether it was voided.
WithinTaken(r, lines) ==
    Cardinality(lines) <= Cardinality(payment[r].lines) - Units(payment, RefundsOf(payment, r))

CommitRefund(q) ==
    /\ desk[q].does = "refund"
    /\ WithinTaken(desk[q].of, desk[q].lines)
    /\ \E s \in desk[q].receipts, d \in DrawerFor(desk[q].by, desk[q].method) :
        /\ payment' = CarriedIfOpen(
                        [payment EXCEPT ![s] = Returned(desk[q].of, desk[q].lines, desk[q].method, desk[q].by, d)],
                        payment[desk[q].of].app)
        /\ receipt' = [receipt EXCEPT ![s] = "issued"]
    /\ Answers(q)
    /\ UNCHANGED <<status, opened, fees, drawer>>

----------------------------------------------------------------------------
(* Receipts withdrawn *)

\* voidPayment, outside its transaction.  The segregation rule is about who
\* recorded a payment; a refund's audit entry is its original's.
BeginVoid(q, r, o) ==
    /\ desk[q] = Idle /\ o \in Treasurers
    /\ payment[r] # NoPayment /\ ~payment[r].voided
    /\ payment[r].kind = "payment" => payment[r].by # o
    /\ Sits(q, [does |-> "void", of |-> r])
    /\ UNCHANGED <<status, opened, money>>

\* Inside it, nothing locked: no live refund, no line on an account.
ReadVoid(q) ==
    /\ desk[q].does = "void"
    /\ RefundsOf(payment, desk[q].of) = {}
    /\ payment[desk[q].of].carried = {}
    /\ Sits(q, [desk[q] EXCEPT !.does = "voids"])
    /\ UNCHANGED <<status, opened, money>>

Voided(r) ==
    /\ payment' = [payment EXCEPT ![r].voided = TRUE]
    /\ receipt' = [receipt EXCEPT ![r] = "void"]

CommitVoid(q) ==
    /\ desk[q].does = "voids"
    /\ ~payment[desk[q].of].voided
    /\ Voided(desk[q].of)
    /\ Sits(q, Idle)
    /\ UNCHANGED <<status, opened, fees, drawer>>

----------------------------------------------------------------------------
(* Fees paid by a transfer from a member *)

\* requestFeeTransfer, up to its transaction.
BeginTransfer(q, a, o) ==
    /\ desk[q] = Idle /\ o \in Cashiers /\ a \notin Opening
    /\ Undecided(a) /\ Takings(payment, a) = {} /\ LiveTransfers(a) = {}
    /\ Sits(q, [does |-> "transfer", app |-> a, by |-> o])
    /\ UNCHANGED <<status, opened, money>>

\* Asked again with the application locked; routed to a chain, or left
\* approved for the Treasurer.
CommitTransfer(q) ==
    /\ desk[q].does = "transfer"
    /\ Takings(payment, desk[q].app) = {} /\ LiveTransfers(desk[q].app) = {}
    /\ \E x \in FeeTransfer, route \in {"submitted", "approved"} :
        /\ fees[x] = NoTransfer
        /\ fees' = [fees EXCEPT ![x] =
                     [app |-> desk[q].app, by |-> desk[q].by, status |-> route,
                      paid |-> NoReceipt, receipt |-> NoReceipt, reversed |-> FALSE]]
    /\ Sits(q, Idle)
    /\ UNCHANGED <<status, opened, receipt, payment, drawer>>

\* What its chain does with a transfer (Review): it is never corrected.
Review(x, to) ==
    /\ fees[x].status \in {"submitted", "under_review"}
    /\ to \in {"under_review", "approved", "returned", "rejected"}
    /\ to # fees[x].status
    /\ fees' = [fees EXCEPT ![x].status = to]
    /\ UNCHANGED <<status, opened, receipt, payment, drawer, desk>>

\* cancelFeeTransfer, which locks the row it read.
Cancel(x) ==
    /\ fees[x].status \in Live
    /\ fees' = [fees EXCEPT ![x].status = "cancelled"]
    /\ UNCHANGED <<status, opened, receipt, payment, drawer, desk>>

\* postApprovedTransaction of a fee transfer, up to its two numbers.
BeginSettle(q, x, o) ==
    /\ desk[q] = Idle /\ o \in Treasurers
    /\ fees[x].status = "approved" /\ fees[x].by # o
    /\ Left(2)
    /\ Allocates(Fresh(2))
    /\ Sits(q, [does |-> "settle", x |-> x, receipts |-> Fresh(2)])
    /\ UNCHANGED <<status, opened, payment, fees, drawer>>

\* Posted and receipted, in one transaction or not at all: settleFeeTransfer.
CommitSettle(q) ==
    LET x == desk[q].x
    IN  /\ desk[q].does = "settle"
        /\ fees[x].status = "approved"
        /\ Undecided(fees[x].app) /\ NotReceipted(fees[x].app)
        /\ \E r \in desk[q].receipts : \E s \in desk[q].receipts \ {r} :
            /\ payment' = [payment EXCEPT ![s] =
                            Taken(fees[x].app, Component, "member_transfer", fees[x].by, NoDrawer)]
            /\ receipt' = [receipt EXCEPT ![r] = "issued", ![s] = "issued"]
            /\ fees' = [fees EXCEPT ![x].status = "posted", ![x].paid = s, ![x].receipt = r]
        /\ Answers(q)
        /\ UNCHANGED <<status, opened, drawer>>

\* Mutant of MayReverse: the receipt it became is not looked at.
MayReverseAny(x) == TRUE

\* reversals.ts: only once the receipt it became is void.
MayReverse(x) == payment[fees[x].paid].voided

Reverse(x) ==
    /\ fees[x].status = "posted" /\ ~fees[x].reversed
    /\ MayReverse(x)
    /\ fees' = [fees EXCEPT ![x].reversed = TRUE]
    /\ UNCHANGED <<status, opened, receipt, payment, drawer, desk>>

----------------------------------------------------------------------------
(* Drawers *)

\* openSession: the unique index keeps a cashier to one.
Open(o, d) ==
    /\ o \in Cashiers \cup Treasurers /\ OpenDrawers(o) = {}
    /\ drawer[d].state = "unused"
    /\ drawer' = [drawer EXCEPT ![d] = [state |-> "open", of |-> o]]
    /\ UNCHANGED <<status, opened, receipt, payment, fees, desk>>

\* drawerFigures: the float, and what was attributed to the drawer.
Figure(d) ==
    LET here == {r \in Issued(payment) : payment[r].drawer = d /\ ~payment[r].voided}
    IN  Units(payment, {r \in here : payment[r].kind = "payment"})
        - Units(payment, {r \in here : payment[r].kind = "refund"})

\* closeSession reads the figure, then closes.
BeginClose(q, d) ==
    /\ desk[q] = Idle /\ drawer[d].state = "open"
    /\ Sits(q, [does |-> "close", d |-> d, expected |-> Figure(d)])
    /\ UNCHANGED <<status, opened, money>>

CommitClose(q) ==
    /\ desk[q].does = "close" /\ drawer[desk[q].d].state = "open"
    /\ drawer' = [drawer EXCEPT ![desk[q].d] =
                   [state |-> "closed", of |-> @.of, expected |-> desk[q].expected]]
    /\ Sits(q, Idle)
    /\ UNCHANGED <<status, opened, receipt, payment, fees>>

FeeStep ==
    \/ \E q \in Request, a \in Application, o \in Officer, method \in Offered : BeginRecord(q, a, o, method)
    \/ \E q \in Request, r \in Receipt, o \in Officer, method \in Offered, lines \in SUBSET Component :
        BeginRefund(q, r, o, method, lines)
    \/ \E q \in Request, r \in Receipt, o \in Officer : BeginVoid(q, r, o)
    \/ \E q \in Request, a \in Application, o \in Officer : BeginTransfer(q, a, o)
    \/ \E q \in Request, x \in FeeTransfer, o \in Officer : BeginSettle(q, x, o)
    \/ \E q \in Request, d \in Drawer : BeginClose(q, d)
    \/ \E q \in Request : \/ CommitRecord(q) \/ CommitRefund(q) \/ ReadVoid(q) \/ CommitVoid(q)
                          \/ CommitTransfer(q) \/ CommitSettle(q) \/ CommitClose(q)
                          \/ Abandons(q) \/ Fails(q) \/ Die(q)
    \/ \E x \in FeeTransfer, to \in Live \cup {"rejected"} : Review(x, to)
    \/ \E x \in FeeTransfer : Cancel(x) \/ Reverse(x)
    \/ \E o \in Officer, d \in Drawer : Open(o, d)

----------------------------------------------------------------------------
(* The applications these fees are for, decided at any moment. *)

FeesInit ==
    /\ EmptyTill
    /\ status = [a \in Application |-> "draft"]
    /\ opened = {}

\* An approval opens the accounts and carries the receipts onto them, in one
\* transaction (create.ts, post_opening_balances).
Approve(a) ==
    /\ Undecided(a) /\ a \notin opened
    /\ status' = [status EXCEPT ![a] = "approved"]
    /\ opened' = opened \cup {a}
    /\ payment' = Carried(payment, a)
    /\ UNCHANGED <<receipt, fees, drawer, desk>>

Reject(a) ==
    /\ Undecided(a) /\ a \notin opened
    /\ status' = [status EXCEPT ![a] = "rejected"]
    /\ UNCHANGED <<opened, money, desk>>

Reopen(a) ==
    /\ status[a] = "rejected"
    /\ status' = [status EXCEPT ![a] = "returned"]
    /\ UNCHANGED <<opened, money, desk>>

FeesNext == FeeStep \/ \E a \in Application : Approve(a) \/ Reject(a) \/ Reopen(a)

FeesSpec == FeesInit /\ [][FeesNext]_feeVars

----------------------------------------------------------------------------
(* Properties *)

TillOK ==
    /\ receipt \in [Receipt -> {"unused", "allocated", "issued", "abandoned", "void"}]
    /\ payment \in [Receipt -> Payment \cup {NoPayment}]
    /\ fees \in [FeeTransfer -> FeeRow \cup {NoTransfer}]
    /\ \A r \in Issued(payment) :
        /\ payment[r].kind = "refund" <=> payment[r].of # NoReceipt
        /\ payment[r].of \in Issued(payment) \cup {NoReceipt}
    /\ \A x \in FeeTransfer : fees[x] # NoTransfer /\ fees[x].reversed => fees[x].status = "posted"

\* An application is receipted once: two officers, or an officer and the
\* Treasurer disbursing a transfer for the same fees, cannot each issue it a
\* receipt, whatever each of them read before (payments.ts, insertFeePayment).
OneLivePayment ==
    \A a \in Application : \A r, s \in Takings(payment, a) : r = s

\* A number says what became of it: it is issued exactly while a payment that
\* stands, or a posted transfer, carries it, and void exactly while the
\* payment it was issued for is; a number given up, after a failure or a
\* commit whose answer was lost, carries nothing (receipts.ts).
Carrying(r) == payment[r] # NoPayment \/ \E x \in FeeTransfer : fees[x].status = "posted" /\ fees[x].receipt = r

ReceiptsAccounted ==
    \A r \in Receipt :
        /\ receipt[r] \in {"issued", "void"} <=> Carrying(r)
        /\ receipt[r] = "void" <=> payment[r] # NoPayment /\ payment[r].voided

\* No more is given back on a receipt than was taken on it, however many
\* refunds of it are under way (payments.ts, refundPayment).
RefundsWithinTaken ==
    \A r \in Issued(payment) :
        payment[r].kind = "payment" =>
            Units(payment, RefundsOf(payment, r)) <= Cardinality(payment[r].lines)

\* A transfer is posted exactly when its fees are receipted, on a receipt of
\* its own; and it is undone only once that receipt is void: the money is
\* never back with the payer and the fees still paid (reversals.ts).
TransfersPayOnce ==
    /\ \A x \in FeeTransfer :
        fees[x] # NoTransfer =>
            /\ fees[x].status = "posted" <=> fees[x].paid # NoReceipt
            /\ fees[x].status = "posted" =>
                 /\ payment[fees[x].paid] # NoPayment
                 /\ payment[fees[x].paid].app = fees[x].app
                 /\ fees[x].reversed => payment[fees[x].paid].voided
    /\ \A r \in Issued(payment) :
        payment[r].method = "member_transfer" =>
            Cardinality({x \in FeeTransfer : fees[x].status = "posted" /\ fees[x].paid = r}) = 1
=============================================================================
