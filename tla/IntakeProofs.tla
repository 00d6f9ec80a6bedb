---------------------------- MODULE IntakeProofs ----------------------------
(***************************************************************************)
(* What an application goes through, for any applications, officers,       *)
(* requests, receipt numbers and fee schedule: what the till keeps, who    *)
(* may decide on what, and what becomes of the papers meanwhile.           *)
(*                                                                         *)
(* The tables are first taken as values: Sound says what is true of them,  *)
(* and a lemma per kind of writing says that it stays true.  The steps of  *)
(* the handlers are then a matter of who holds which number.  A lemma is   *)
(* about FeeStep where it can be, so that the specification of Fees and    *)
(* that of Applications both use it.                                       *)
(***************************************************************************)
EXTENDS Applications, DocumentsProofs

----------------------------------------------------------------------------
(* The tables as values *)

ReceiptState == {"unused", "allocated", "issued", "abandoned", "void"}
ReceiptTable == [Receipt -> ReceiptState]
PaymentTable == [Receipt -> Payment \cup {NoPayment}]
FeeTable == [FeeTransfer -> FeeRow \cup {NoTransfer}]

\* A refund is of a payment there is, and a payment of none.
Pointed(p) ==
    \A r \in Issued(p) : /\ p[r].kind = "refund" <=> p[r].of # NoReceipt
                         /\ p[r].of \in Issued(p) \cup {NoReceipt}

PostedFirst(f) ==
    \A x \in FeeTransfer : f[x] # NoTransfer /\ f[x].reversed => f[x].status = "posted"

OneLive(p) == \A a \in Application : \A r, s \in Takings(p, a) : r = s

CarryingOn(p, f, r) ==
    p[r] # NoPayment \/ \E x \in FeeTransfer : f[x].status = "posted" /\ f[x].receipt = r

Accounted(p, f, n) ==
    \A r \in Receipt :
        /\ n[r] \in {"issued", "void"} <=> CarryingOn(p, f, r)
        /\ n[r] = "void" <=> p[r] # NoPayment /\ p[r].voided

Within(p) ==
    \A r \in Issued(p) :
        p[r].kind = "payment" => Units(p, RefundsOf(p, r)) <= Cardinality(p[r].lines)

\* What a fee transfer says of the receipt it became.
Receipted(p, row) ==
    /\ row.status = "posted" <=> row.paid # NoReceipt
    /\ row.status = "posted" =>
         /\ row.paid \in Receipt /\ p[row.paid] # NoPayment /\ p[row.paid].app = row.app
         /\ row.reversed => p[row.paid].voided

Payers(f, r) == {x \in FeeTransfer : f[x].status = "posted" /\ f[x].paid = r}

PaidOnce(p, f) ==
    /\ \A x \in FeeTransfer : f[x] # NoTransfer => Receipted(p, f[x])
    /\ \A r \in Issued(p) : p[r].method = "member_transfer" => Cardinality(Payers(f, r)) = 1

Sound(p, f, n) ==
    /\ p \in PaymentTable /\ f \in FeeTable /\ n \in ReceiptTable
    /\ Pointed(p) /\ PostedFirst(f)
    /\ OneLive(p) /\ Accounted(p, f, n) /\ Within(p) /\ PaidOnce(p, f)

\* They are the module's own properties, of the tables as they are.
LEMMA SoundTables ==
    Sound(payment, fees, receipt) <=>
        TillOK /\ OneLivePayment /\ ReceiptsAccounted /\ RefundsWithinTaken /\ TransfersPayOnce
<1>1. ASSUME TillOK
      PROVE  TransfersPayOnce <=> PaidOnce(payment, fees)
  <2>1. ASSUME NEW x \in FeeTransfer, fees[x] # NoTransfer
        PROVE  fees[x].paid \in Receipt \cup {NoReceipt}
    BY <1>1, <2>1 DEF TillOK, FeeRow
  <2> QED
    BY <2>1 DEF TransfersPayOnce, PaidOnce, Receipted, Payers
<1>2. TillOK <=> /\ payment \in PaymentTable /\ fees \in FeeTable /\ receipt \in ReceiptTable
                 /\ Pointed(payment) /\ PostedFirst(fees)
  BY DEF TillOK, PaymentTable, FeeTable, ReceiptTable, ReceiptState, Pointed, PostedFirst
<1>3. OneLivePayment <=> OneLive(payment)
  BY DEF OneLivePayment, OneLive
<1>4. ReceiptsAccounted <=> Accounted(payment, fees, receipt)
  BY DEF ReceiptsAccounted, Accounted, Carrying, CarryingOn
<1>5. RefundsWithinTaken <=> Within(payment)
  BY DEF RefundsWithinTaken, Within
<1> QED
  BY <1>1, <1>2, <1>3, <1>4, <1>5 DEF Sound

----------------------------------------------------------------------------
(* Counting units *)

\* One unit of one payment.
UnitsOf(p, S) == {unit \in S \X Component : unit[2] \in p[unit[1]].lines}

LEMMA ReceiptsFinite == \A S \in SUBSET Receipt : IsFiniteSet(S)
<1>1. IsFiniteSet(1..Receipts)
  BY FS_Interval, ReceiptsAssumption
<1> QED
  BY <1>1, FS_Subset DEF Receipt

LEMMA ComponentsFinite == \A S \in SUBSET Component : IsFiniteSet(S) /\ Cardinality(S) \in Nat
BY ComponentAssumption, FS_Subset, FS_CardinalityType

LEMMA UnitsFinite ==
    ASSUME NEW p, NEW S \in SUBSET Receipt
    PROVE  /\ IsFiniteSet(UnitsOf(p, S))
           /\ Units(p, S) = Cardinality(UnitsOf(p, S)) /\ Units(p, S) \in Nat
<1>1. IsFiniteSet(S \X Component)
  BY ReceiptsFinite, ComponentAssumption, FS_Product
<1>2. UnitsOf(p, S) \in SUBSET (S \X Component)
  BY DEF UnitsOf
<1> QED
  BY <1>1, <1>2, FS_Subset, FS_CardinalityType DEF Units, UnitsOf

\* Fewer payments have no more units on them.
LEMMA FewerUnits ==
    ASSUME NEW p, NEW p2, NEW T \in SUBSET Receipt, NEW S \in SUBSET T,
           \A r \in S : p2[r].lines = p[r].lines
    PROVE  Units(p2, S) <= Units(p, T)
<1>1. UnitsOf(p2, S) \in SUBSET UnitsOf(p, T)
  BY DEF UnitsOf
<1> QED
  BY <1>1, UnitsFinite, FS_Subset

\* One payment more has its own units more on it.
LEMMA UnitsAdded ==
    ASSUME NEW p, NEW p2, NEW S \in SUBSET Receipt, NEW s \in Receipt,
           p2[s].lines \in SUBSET Component, \A r \in S : p2[r].lines = p[r].lines
    PROVE  Units(p2, S \cup {s}) <= Units(p, S) + Cardinality(p2[s].lines)
<1> DEFINE L == p2[s].lines
           new == {s} \X L
<1>1. IsFiniteSet(new) /\ Cardinality(new) = Cardinality(L)
  <2>1. IsFiniteSet({s}) /\ Cardinality({s}) = 1 /\ IsFiniteSet(L) /\ Cardinality(L) \in Nat
    BY FS_Singleton, ComponentsFinite
  <2>2. IsFiniteSet(new) /\ Cardinality(new) = Cardinality({s}) * Cardinality(L)
    BY <2>1, FS_Product
  <2> QED
    BY <2>1, <2>2
<1>2. UnitsOf(p2, S \cup {s}) \in SUBSET (UnitsOf(p, S) \cup new)
  BY DEF UnitsOf
<1>3. IsFiniteSet(UnitsOf(p, S)) /\ Units(p, S) = Cardinality(UnitsOf(p, S)) /\ Units(p, S) \in Nat
  BY UnitsFinite
<1>4. /\ IsFiniteSet(UnitsOf(p, S) \cup new)
      /\ Cardinality(UnitsOf(p, S) \cup new) =
           Cardinality(UnitsOf(p, S)) + Cardinality(new) - Cardinality(UnitsOf(p, S) \cap new)
  BY <1>1, <1>3, FS_Union
<1>5. Cardinality(UnitsOf(p, S) \cap new) \in Nat
  BY <1>1, <1>3, FS_Subset, FS_CardinalityType
<1>6. Cardinality(UnitsOf(p2, S \cup {s})) <= Cardinality(UnitsOf(p, S) \cup new)
  BY <1>2, <1>4, FS_Subset
<1>7. Units(p2, S \cup {s}) = Cardinality(UnitsOf(p2, S \cup {s})) /\ Units(p2, S \cup {s}) \in Nat
  BY UnitsFinite
<1>8. Cardinality(L) \in Nat
  BY ComponentsFinite
<1> QED
  BY <1>1, <1>3, <1>4, <1>5, <1>6, <1>7, <1>8

----------------------------------------------------------------------------
(* Receipts carried onto accounts: all but that is left as it was. *)

Like(p, p2) ==
    \A r \in Receipt :
        /\ p2[r] = NoPayment <=> p[r] = NoPayment
        /\ p[r] # NoPayment =>
             /\ p2[r].kind = p[r].kind /\ p2[r].app = p[r].app /\ p2[r].of = p[r].of
             /\ p2[r].lines = p[r].lines /\ p2[r].method = p[r].method
             /\ p2[r].voided = p[r].voided

LEMMA RowIsNotNone == NoPayment \notin Payment /\ NoTransfer \notin FeeRow
<1>1. \A x \in Payment : x.kind \in {"payment", "refund"}
  BY DEF Payment
<1>2. \A x \in FeeRow : x.status # "none"
  BY DEF FeeRow, Live
<1> QED
  BY <1>1, <1>2 DEF NoPayment, NoTransfer

LEMMA CarriedIsLike ==
    ASSUME NEW p \in PaymentTable, NEW a
    PROVE  Carried(p, a) \in PaymentTable /\ Like(p, Carried(p, a))
<1> DEFINE Adds(r, S) == [p[r] EXCEPT !.carried = @ \cup (p[r].lines \cap S)]
<1>1. ASSUME NEW r \in Receipt, NEW S, p[r] # NoPayment
      PROVE  /\ Adds(r, S) \in Payment /\ Adds(r, S) # NoPayment
             /\ Adds(r, S).kind = p[r].kind /\ Adds(r, S).app = p[r].app /\ Adds(r, S).of = p[r].of
             /\ Adds(r, S).lines = p[r].lines /\ Adds(r, S).method = p[r].method
             /\ Adds(r, S).voided = p[r].voided
  <2>1. p[r] \in Payment
    BY <1>1 DEF PaymentTable
  <2>2. Adds(r, S) \in Payment
    <3>1. p[r].carried \cup (p[r].lines \cap S) \in SUBSET Component
      BY <2>1 DEF Payment
    <3> QED
      BY <2>1, <3>1 DEF Payment
  <2> QED
    BY <2>1, <2>2, RowIsNotNone DEF Payment
<1>2. \A r \in Receipt : Carried(p, a)[r] = p[r] \/ (p[r] # NoPayment /\ \E S : Carried(p, a)[r] = Adds(r, S))
  BY DEF Carried, Takings, Issued
<1>3. Carried(p, a) = [r \in Receipt |-> Carried(p, a)[r]]
  BY DEF Carried
<1>4. \A r \in Receipt : Carried(p, a)[r] \in Payment \cup {NoPayment}
  <2>1. \A r \in Receipt : p[r] \in Payment \cup {NoPayment}
    BY DEF PaymentTable
  <2> HIDE DEF Adds
  <2> QED
    BY <1>1, <1>2, <2>1
<1>5. Like(p, Carried(p, a))
  <2> SUFFICES ASSUME NEW r \in Receipt
               PROVE  /\ Carried(p, a)[r] = NoPayment <=> p[r] = NoPayment
                      /\ p[r] # NoPayment =>
                           /\ Carried(p, a)[r].kind = p[r].kind /\ Carried(p, a)[r].app = p[r].app
                           /\ Carried(p, a)[r].of = p[r].of /\ Carried(p, a)[r].lines = p[r].lines
                           /\ Carried(p, a)[r].method = p[r].method /\ Carried(p, a)[r].voided = p[r].voided
    BY DEF Like
  <2>1. CASE Carried(p, a)[r] = p[r]
    BY <2>1
  <2>2. CASE p[r] # NoPayment /\ \E S : Carried(p, a)[r] = Adds(r, S)
    <3>1. PICK S : Carried(p, a)[r] = Adds(r, S)
      BY <2>2
    <3> HIDE DEF Adds
    <3> QED
      BY <1>1, <2>2, <3>1
  <2> QED
    BY <1>2, <2>1, <2>2
<1> QED
  BY <1>3, <1>4, <1>5 DEF PaymentTable

LEMMA LikeIsSound ==
    ASSUME NEW p, NEW p2 \in PaymentTable, NEW f, NEW n, Sound(p, f, n), Like(p, p2)
    PROVE  Sound(p2, f, n)
<1>1. Issued(p2) = Issued(p)
  BY DEF Like, Issued
<1>2. \A a : Takings(p2, a) = Takings(p, a)
  BY <1>1 DEF Like, Takings, Issued
<1>3. \A r : RefundsOf(p2, r) = RefundsOf(p, r)
  BY <1>1 DEF Like, RefundsOf, Issued
<1>4. Pointed(p2)
  BY <1>1 DEF Sound, Pointed, Like, Issued
<1>5. OneLive(p2)
  BY <1>2 DEF Sound, OneLive
<1>6. Accounted(p2, f, n)
  BY DEF Sound, Accounted, CarryingOn, Like
<1>7. Within(p2)
  <2> SUFFICES ASSUME NEW r \in Issued(p2), p2[r].kind = "payment"
               PROVE  Units(p2, RefundsOf(p2, r)) <= Cardinality(p2[r].lines)
    BY DEF Within
  <2>1. RefundsOf(p, r) \in SUBSET Receipt /\ \A s \in RefundsOf(p, r) : p2[s].lines = p[s].lines
    BY DEF RefundsOf, Issued, Like
  <2>2. Units(p2, RefundsOf(p2, r)) <= Units(p, RefundsOf(p, r))
    BY <1>3, <2>1, FewerUnits
  <2>3. r \in Issued(p) /\ p[r].kind = "payment" /\ p2[r].lines = p[r].lines /\ p2[r].lines \in SUBSET Component
    BY <1>1 DEF Issued, Like, PaymentTable, Payment
  <2>4. Units(p, RefundsOf(p, r)) <= Cardinality(p[r].lines)
    BY <2>3 DEF Sound, Within
  <2>5. Units(p, RefundsOf(p, r)) \in Nat /\ Units(p2, RefundsOf(p2, r)) \in Nat
    BY <1>3, <2>1, UnitsFinite
  <2>6. Cardinality(p[r].lines) \in Nat
    BY <2>3, ComponentsFinite
  <2> QED
    BY <2>2, <2>3, <2>4, <2>5, <2>6
<1>8. PaidOnce(p2, f)
  <2>1. \A x \in FeeTransfer : f[x] # NoTransfer => Receipted(p2, f[x])
    BY DEF Sound, PaidOnce, Receipted, Like
  <2>2. \A r \in Issued(p2) : p2[r].method = "member_transfer" => Cardinality(Payers(f, r)) = 1
    BY <1>1 DEF Sound, PaidOnce, Like, Issued
  <2> QED
    BY <2>1, <2>2 DEF PaidOnce
<1> QED
  BY <1>4, <1>5, <1>6, <1>7, <1>8 DEF Sound
----------------------------------------------------------------------------
(* What the writes of the handlers leave *)

Added(p, r, row) == [p EXCEPT ![r] = row]
Issues(n, r) == [n EXCEPT ![r] = "issued"]

\* A number of no payment carries none of the rows there were.
LEMMA AddedRow ==
    ASSUME NEW p \in PaymentTable, NEW r \in Receipt, NEW row \in Payment, p[r] = NoPayment
    PROVE  /\ Added(p, r, row) \in PaymentTable
           /\ Added(p, r, row)[r] = row /\ row # NoPayment
           /\ \A s \in Receipt : s # r => Added(p, r, row)[s] = p[s]
           /\ Issued(Added(p, r, row)) = Issued(p) \cup {r}
<1>1. /\ Added(p, r, row) \in PaymentTable
      /\ Added(p, r, row)[r] = row /\ row # NoPayment
      /\ \A s \in Receipt : s # r => Added(p, r, row)[s] = p[s]
  BY RowIsNotNone DEF Added, PaymentTable
<1> QED
  BY <1>1 DEF Issued

\* What a row may be: a payment where none stands, or a refund within what is
\* left of its original.
Fits(p, row) ==
    /\ ~row.voided
    /\ \/ row.kind = "payment" /\ row.of = NoReceipt /\ Takings(p, row.app) = {}
       \/ /\ row.kind = "refund" /\ row.of \in Issued(p)
          /\ Cardinality(row.lines) <= Cardinality(p[row.of].lines) - Units(p, RefundsOf(p, row.of))

LEMMA AddingFits ==
    ASSUME NEW p \in PaymentTable, Pointed(p), OneLive(p), Within(p),
           NEW r \in Receipt, p[r] = NoPayment, NEW row \in Payment, Fits(p, row)
    PROVE  LET p2 == Added(p, r, row) IN Pointed(p2) /\ OneLive(p2) /\ Within(p2)
<1> DEFINE p2 == Added(p, r, row)
<1>2. /\ p2 \in PaymentTable /\ p2[r] = row /\ row # NoPayment
      /\ \A s \in Receipt : s # r => p2[s] = p[s]
      /\ Issued(p2) = Issued(p) \cup {r}
  BY AddedRow
<1>3. NoReceipt \notin Receipt /\ r \notin Issued(p) /\ Issued(p) \subseteq Receipt
  BY DEF Receipt, NoReceipt, Issued
<1> HIDE DEF p2
<1>4. Pointed(p2)
  BY <1>2, <1>3 DEF Pointed, Fits
<1>5. OneLive(p2)
  <2>1. CASE row.kind = "payment"
    <3>1. \A a : a # row.app => Takings(p2, a) = Takings(p, a)
      BY <1>2, <1>3 DEF Takings
    <3>2. Takings(p2, row.app) \subseteq {r}
      BY <1>2, <1>3, <2>1 DEF Takings, Fits
    <3> QED
      BY <3>1, <3>2 DEF OneLive
  <2>2. CASE row.kind = "refund"
    <3>1. \A a : Takings(p2, a) = Takings(p, a)
      BY <1>2, <1>3, <2>2 DEF Takings
    <3> QED
      BY <3>1 DEF OneLive
  <2> QED
    BY <2>1, <2>2 DEF Fits
<1>6. Within(p2)
  <2> SUFFICES ASSUME NEW o \in Issued(p2), p2[o].kind = "payment"
               PROVE  Units(p2, RefundsOf(p2, o)) <= Cardinality(p2[o].lines)
    BY DEF Within
  <2>1. /\ RefundsOf(p, o) \in SUBSET Receipt /\ r \notin RefundsOf(p, o)
        /\ \A s \in RefundsOf(p, o) : p2[s].lines = p[s].lines
    BY <1>2, <1>3 DEF RefundsOf
  <2>2. o \in Receipt /\ p2[o].lines \in SUBSET Component /\ row.lines \in SUBSET Component
    BY <1>2, <1>3 DEF PaymentTable, Payment, Issued
  <2>3. /\ Units(p, RefundsOf(p, o)) \in Nat
        /\ Cardinality(p2[o].lines) \in Nat /\ Cardinality(row.lines) \in Nat
    BY <2>1, <2>2, UnitsFinite, ComponentsFinite
  <2>4. CASE o = r
    <3>1. RefundsOf(p2, o) = {}
      BY <1>2, <1>3, <2>4 DEF RefundsOf, Pointed, Fits
    <3>2. UnitsOf(p2, {}) = {}
      BY DEF UnitsOf
    <3>3. Units(p2, {}) = 0
      BY <3>2, FS_EmptySet, UnitsFinite
    <3> QED
      BY <2>3, <3>1, <3>3
  <2>5. CASE o # r /\ row.of # o
    <3>1. RefundsOf(p2, o) = RefundsOf(p, o)
      BY <1>2, <1>3, <2>5 DEF RefundsOf
    <3>2. Units(p2, RefundsOf(p, o)) <= Units(p, RefundsOf(p, o)) /\ Units(p2, RefundsOf(p, o)) \in Nat
      BY <2>1, FewerUnits, UnitsFinite
    <3>3. Units(p, RefundsOf(p, o)) <= Cardinality(p2[o].lines)
      BY <1>2, <1>3, <2>2, <2>5 DEF Within
    <3> QED
      BY <2>3, <3>1, <3>2, <3>3
  <2>6. CASE o # r /\ row.of = o
    <3>1. o \in Issued(p) /\ o # NoReceipt /\ row.kind = "refund" /\ p2[o] = p[o]
      BY <1>2, <1>3, <2>2, <2>6 DEF Fits
    <3>2. RefundsOf(p2, o) = RefundsOf(p, o) \cup {r}
      BY <1>2, <1>3, <2>6 DEF RefundsOf, Fits
    <3>3. Units(p2, RefundsOf(p, o) \cup {r}) <= Units(p, RefundsOf(p, o)) + Cardinality(row.lines)
      BY <1>2, <2>1, <2>2, UnitsAdded
    <3>4. Cardinality(row.lines) <= Cardinality(p2[o].lines) - Units(p, RefundsOf(p, o))
      BY <2>6, <3>1 DEF Fits
    <3>5. RefundsOf(p2, o) \in SUBSET Receipt
      BY DEF RefundsOf, Issued
    <3>6. Units(p2, RefundsOf(p2, o)) \in Nat
      BY <3>5, UnitsFinite
    <3> QED
      BY <2>3, <3>2, <3>3, <3>4, <3>6
  <2> QED
    BY <2>4, <2>5, <2>6
<1> QED
  BY <1>4, <1>5, <1>6 DEF p2

\* A payment or a refund is recorded on a number that was handed out.
LEMMA AddedIsSound ==
    ASSUME NEW p, NEW f, NEW n, Sound(p, f, n), NEW r \in Receipt, n[r] = "allocated",
           NEW row \in Payment, Fits(p, row), row.method # "member_transfer"
    PROVE  Sound(Added(p, r, row), f, Issues(n, r))
<1> DEFINE p2 == Added(p, r, row)
           n2 == Issues(n, r)
<1>1. /\ p \in PaymentTable /\ f \in FeeTable /\ n \in ReceiptTable
      /\ Pointed(p) /\ OneLive(p) /\ Within(p)
  BY DEF Sound
<1>2. p[r] = NoPayment
  BY DEF Sound, Accounted, CarryingOn
<1>3. /\ p2 \in PaymentTable /\ p2[r] = row /\ row # NoPayment
      /\ \A s \in Receipt : s # r => p2[s] = p[s]
      /\ Issued(p2) = Issued(p) \cup {r}
  BY <1>1, <1>2, AddedRow
<1>4. Pointed(p2) /\ OneLive(p2) /\ Within(p2)
  BY <1>1, <1>2, AddingFits
<1>5. n2 \in ReceiptTable /\ n2[r] = "issued" /\ \A s \in Receipt : s # r => n2[s] = n[s]
  BY <1>1 DEF ReceiptTable, ReceiptState, Issues
<1> HIDE DEF p2, n2
<1>6. Accounted(p2, f, n2)
  BY <1>3, <1>5 DEF Sound, Accounted, CarryingOn, Fits
<1>7. PaidOnce(p2, f)
  <2>1. ASSUME NEW x \in FeeTransfer, f[x] # NoTransfer
        PROVE  Receipted(p2, f[x])
    BY <1>2, <1>3, <2>1 DEF Sound, PaidOnce, Receipted
  <2>2. \A s \in Issued(p2) : p2[s].method = "member_transfer" => s \in Issued(p) /\ p2[s] = p[s]
    BY <1>3 DEF Issued
  <2> QED
    BY <2>1, <2>2 DEF Sound, PaidOnce
<1> QED
  BY <1>1, <1>3, <1>4, <1>5, <1>6, <1>7 DEF Sound, p2, n2

\* A transfer posts and its fees are receipted, each on a number handed out.
Posts(f, x, r, s) == [f EXCEPT ![x].status = "posted", ![x].paid = s, ![x].receipt = r]

LEMMA SettlingIsSound ==
    ASSUME NEW p, NEW f, NEW n, Sound(p, f, n),
           NEW x \in FeeTransfer, f[x].status = "approved",
           NEW r \in Receipt, n[r] = "allocated", NEW s \in Receipt, n[s] = "allocated", r # s,
           NEW row \in Payment, Fits(p, row), row.app = f[x].app
    PROVE  Sound(Added(p, s, row), Posts(f, x, r, s), Issues(Issues(n, r), s))
<1> DEFINE p2 == Added(p, s, row)
           f2 == Posts(f, x, r, s)
           n2 == Issues(Issues(n, r), s)
<1>1. /\ p \in PaymentTable /\ f \in FeeTable /\ n \in ReceiptTable
      /\ Pointed(p) /\ OneLive(p) /\ Within(p)
  BY DEF Sound
<1>2. /\ p[r] = NoPayment /\ p[s] = NoPayment
      /\ \A y \in FeeTransfer : f[y].status = "posted" => f[y].receipt \notin {r, s}
  BY DEF Sound, Accounted, CarryingOn
<1>3. /\ p2 \in PaymentTable /\ p2[s] = row /\ row # NoPayment
      /\ \A t \in Receipt : t # s => p2[t] = p[t]
      /\ Issued(p2) = Issued(p) \cup {s}
  BY <1>1, <1>2, AddedRow
<1>4. Pointed(p2) /\ OneLive(p2) /\ Within(p2)
  BY <1>1, <1>2, AddingFits
<1>5. /\ n2 \in ReceiptTable /\ n2[r] = "issued" /\ n2[s] = "issued"
      /\ \A t \in Receipt : t \notin {r, s} => n2[t] = n[t]
  BY <1>1 DEF ReceiptTable, ReceiptState, Issues
<1>6. /\ f2 \in FeeTable
      /\ f2[x].status = "posted" /\ f2[x].paid = s /\ f2[x].receipt = r
      /\ f2[x].app = f[x].app /\ f2[x].reversed = f[x].reversed
      /\ \A y \in FeeTransfer : y # x => f2[y] = f[y]
  <2>1. f[x] \in FeeRow
    BY <1>1 DEF FeeTable, NoTransfer
  <2>2. [f[x] EXCEPT !.status = "posted", !.paid = s, !.receipt = r] \in FeeRow
    BY <2>1 DEF FeeRow
  <2> QED
    BY <1>1, <2>1, <2>2 DEF FeeTable, Posts, FeeRow
<1>7. f[x] # NoTransfer /\ f[x].paid = NoReceipt
  <2>1. f[x] \in FeeRow
    BY <1>1 DEF FeeTable, NoTransfer
  <2> QED
    BY <2>1, RowIsNotNone DEF Sound, PaidOnce, Receipted
<1> HIDE DEF p2, f2, n2
<1>8. Accounted(p2, f2, n2)
  <2> SUFFICES ASSUME NEW t \in Receipt
               PROVE  /\ n2[t] \in {"issued", "void"} <=> CarryingOn(p2, f2, t)
                      /\ n2[t] = "void" <=> p2[t] # NoPayment /\ p2[t].voided
    BY DEF Accounted
  <2>1. CASE t = s
    BY <1>3, <1>5, <2>1 DEF CarryingOn, Fits
  <2>2. CASE t = r
    BY <1>2, <1>3, <1>5, <1>6, <2>2 DEF CarryingOn
  <2>3. CASE t \notin {r, s}
    <3>1. CarryingOn(p2, f2, t) <=> CarryingOn(p, f, t)
      BY <1>3, <1>6, <2>3 DEF CarryingOn
    <3> QED
      BY <1>3, <1>5, <2>3, <3>1 DEF Sound, Accounted
  <2> QED
    BY <2>1, <2>2, <2>3
<1>9. PaidOnce(p2, f2)
  <2>1. ASSUME NEW y \in FeeTransfer, f2[y] # NoTransfer
        PROVE  Receipted(p2, f2[y])
    <3>1. CASE y = x
      <4>1. s # NoReceipt /\ p2[s].app = f2[x].app
        BY <1>3, <1>6 DEF Receipt, NoReceipt
      <4>2. ~f[x].reversed
        BY <1>7 DEF Sound, PostedFirst
      <4> QED
        BY <1>3, <1>6, <3>1, <4>1, <4>2 DEF Receipted
    <3>2. CASE y # x
      BY <1>2, <1>3, <1>6, <2>1, <3>2 DEF Sound, PaidOnce, Receipted
    <3> QED
      BY <3>1, <3>2
  <2>2. ASSUME NEW t \in Issued(p2), p2[t].method = "member_transfer"
        PROVE  Cardinality(Payers(f2, t)) = 1
    <3>1. CASE t = s
      <4>1. Payers(f2, s) = {x}
        BY <1>2, <1>6 DEF Payers, Sound, PaidOnce, Receipted, NoTransfer
      <4> QED
        BY <3>1, <4>1, FS_Singleton
    <3>2. CASE t # s
      <4>1. Payers(f2, t) = Payers(f, t)
        BY <1>6, <3>2 DEF Payers
      <4> QED
        BY <1>3, <2>2, <3>2, <4>1 DEF Sound, PaidOnce, Issued
    <3> QED
      BY <3>1, <3>2
  <2> QED
    BY <2>1, <2>2 DEF PaidOnce
<1>10. PostedFirst(f2)
  BY <1>6 DEF Sound, PostedFirst
<1> QED
  BY <1>3, <1>4, <1>5, <1>6, <1>8, <1>9, <1>10 DEF Sound, p2, f2, n2

LEMMA VoidingIsSound ==
    ASSUME NEW p, NEW f, NEW n, Sound(p, f, n), NEW r \in Issued(p)
    PROVE  Sound([p EXCEPT ![r].voided = TRUE], f, [n EXCEPT ![r] = "void"])
<1> DEFINE p2 == [p EXCEPT ![r].voided = TRUE]
           n2 == [n EXCEPT ![r] = "void"]
<1>1. p \in PaymentTable /\ f \in FeeTable /\ n \in ReceiptTable /\ r \in Receipt /\ p[r] \in Payment
  BY DEF Sound, PaymentTable, Issued
<1>2. [p[r] EXCEPT !.voided = TRUE] \in Payment
  BY <1>1 DEF Payment
<1>3. /\ p2 \in PaymentTable /\ p2[r] # NoPayment /\ p2[r].voided
      /\ p2[r].kind = p[r].kind /\ p2[r].app = p[r].app /\ p2[r].of = p[r].of
      /\ p2[r].lines = p[r].lines /\ p2[r].method = p[r].method
      /\ \A s \in Receipt : s # r => p2[s] = p[s]
  BY <1>1, <1>2, RowIsNotNone DEF PaymentTable, Payment
<1>4. n2 \in ReceiptTable /\ n2[r] = "void" /\ \A s \in Receipt : s # r => n2[s] = n[s]
  BY <1>1 DEF ReceiptTable, ReceiptState
<1> HIDE DEF p2, n2
<1>5. Issued(p2) = Issued(p) /\ Issued(p) \subseteq Receipt
  BY <1>3 DEF Issued
<1>6. Pointed(p2)
  BY <1>3, <1>5 DEF Sound, Pointed
<1>7. OneLive(p2)
  <2>1. \A a : Takings(p2, a) \subseteq Takings(p, a)
    BY <1>3, <1>5 DEF Takings
  <2> QED
    BY <2>1 DEF Sound, OneLive
<1>8. Accounted(p2, f, n2)
  BY <1>1, <1>3, <1>4 DEF Sound, Accounted, CarryingOn, Issued
<1>9. Within(p2)
  <2> SUFFICES ASSUME NEW o \in Issued(p2), p2[o].kind = "payment"
               PROVE  Units(p2, RefundsOf(p2, o)) <= Cardinality(p2[o].lines)
    BY DEF Within
  <2>1. /\ RefundsOf(p2, o) \subseteq RefundsOf(p, o) /\ RefundsOf(p, o) \in SUBSET Receipt
        /\ \A s \in RefundsOf(p2, o) : p2[s].lines = p[s].lines
    BY <1>3, <1>5 DEF RefundsOf
  <2>2. Units(p2, RefundsOf(p2, o)) <= Units(p, RefundsOf(p, o))
    BY <2>1, FewerUnits
  <2>3. o \in Receipt /\ p2[o].lines = p[o].lines /\ p[o].kind = "payment" /\ p[o].lines \in SUBSET Component
    BY <1>1, <1>3, <1>5 DEF PaymentTable, Payment, Issued
  <2>4. Units(p, RefundsOf(p, o)) <= Cardinality(p[o].lines)
    BY <1>5, <2>3 DEF Sound, Within
  <2>5. /\ Units(p, RefundsOf(p, o)) \in Nat /\ Units(p2, RefundsOf(p2, o)) \in Nat
        /\ Cardinality(p[o].lines) \in Nat
    BY <2>1, <2>3, UnitsFinite, ComponentsFinite
  <2> QED
    BY <2>2, <2>3, <2>4, <2>5
<1>10. PaidOnce(p2, f)
  <2>1. ASSUME NEW x \in FeeTransfer, f[x] # NoTransfer
        PROVE  Receipted(p2, f[x])
    BY <1>1, <1>3, <2>1 DEF Sound, PaidOnce, Receipted
  <2> QED
    BY <1>3, <1>5, <2>1 DEF Sound, PaidOnce
<1> QED
  BY <1>1, <1>3, <1>4, <1>6, <1>7, <1>8, <1>9, <1>10 DEF Sound, p2, n2

\* Numbers handed out or given up, that carry nothing.
LEMMA NumbersAreSound ==
    ASSUME NEW p, NEW f, NEW n, Sound(p, f, n), NEW n2 \in ReceiptTable,
           \A r \in Receipt : n2[r] = n[r] \/ (n[r] \notin {"issued", "void"} /\ n2[r] \notin {"issued", "void"})
    PROVE  Sound(p, f, n2)
<1>1. Accounted(p, f, n2)
  BY DEF Sound, Accounted
<1> QED
  BY <1>1 DEF Sound

\* Transfers asked for, reviewed, cancelled or reversed.
LEMMA TransfersAreSound ==
    ASSUME NEW p, NEW f, NEW n, Sound(p, f, n), NEW f2 \in FeeTable, PostedFirst(f2),
           \A x \in FeeTransfer :
              /\ f2[x].status = "posted" <=> f[x].status = "posted"
              /\ f[x].status = "posted" => f2[x].receipt = f[x].receipt /\ f2[x].paid = f[x].paid
              /\ f2[x] # NoTransfer => Receipted(p, f2[x])
    PROVE  Sound(p, f2, n)
<1>1. Accounted(p, f2, n)
  BY DEF Sound, Accounted, CarryingOn
<1>2. \A r : Payers(f2, r) = Payers(f, r)
  BY DEF Payers
<1>3. PaidOnce(p, f2)
  BY <1>2 DEF Sound, PaidOnce
<1> QED
  BY <1>1, <1>3 DEF Sound

----------------------------------------------------------------------------
(* The requests under way: what each has read is still there to act on,    *)
(* and the numbers it was handed are its own.                              *)

RequestOK(request) ==
    /\ request.does = "record" =>
         request.app \in Application /\ request.by \in Officer /\ request.method \in Offered
    /\ request.does = "refund" =>
         /\ request.of \in Issued(payment)
         /\ request.by \in Officer /\ request.method \in Offered /\ request.lines \in SUBSET Component
    /\ request.does = "settle" => request.x \in FeeTransfer
    /\ request.does = "transfer" => request.app \in Application /\ request.by \in Officer
    /\ request.does \in {"void", "voids"} =>
         /\ request = [does |-> request.does, of |-> request.of]
         /\ request.of \in Issued(payment)
    /\ request.does \in {"look", "remove"} =>
         request = [does |-> request.does, v |-> request.v, by |-> request.by]

HoldsOK(request) ==
    /\ Held(request) \subseteq Receipt
    /\ \A r \in Held(request) :
         /\ receipt[r] # "unused"
         /\ request.does # "abandon" => receipt[r] = "allocated"

DeskOK ==
    /\ desk = [q \in Request |-> desk[q]]
    /\ \A q \in Request : RequestOK(desk[q]) /\ HoldsOK(desk[q])
    /\ \A q \in Request : \A o \in Request \ {q} : Held(desk[q]) \cap Held(desk[o]) = {}

FeesInv == Sound(payment, fees, receipt) /\ DeskOK

\* A request sits down, or gets up, with numbers nobody else holds; what the
\* step does to numbers others hold is at most to void one they have used.
LEMMA DeskStaysOK ==
    ASSUME DeskOK, NEW q \in Request, NEW next, Sits(q, next),
           Issued(payment) \subseteq Issued(payment'),
           RequestOK(next)', HoldsOK(next)',
           \A o \in Request \ {q} :
              /\ Held(next) \cap Held(desk[o]) = {}
              /\ \A r \in Held(desk[o]) : \/ receipt'[r] = receipt[r]
                                          \/ receipt[r] # "allocated" /\ receipt'[r] # "unused"
    PROVE  DeskOK'
<1>1. desk' = [o \in Request |-> desk'[o]] /\ desk'[q] = next /\ \A o \in Request \ {q} : desk'[o] = desk[o]
  BY DEF DeskOK, Sits
<1>2. ASSUME NEW o \in Request \ {q}
      PROVE  RequestOK(desk[o])' /\ HoldsOK(desk[o])'
  <2>1. RequestOK(desk[o]) /\ HoldsOK(desk[o])
    BY DEF DeskOK
  <2>2. RequestOK(desk[o])'
    BY <1>1, <2>1 DEF RequestOK
  <2>3. HoldsOK(desk[o])'
    BY <1>1, <2>1 DEF HoldsOK
  <2> QED
    BY <2>2, <2>3
<1> QED
  BY <1>1, <1>2 DEF DeskOK

LEMMA HeldBy == /\ Held(Idle) = {} /\ RequestOK(Idle) /\ HoldsOK(Idle)
                /\ \A S : /\ Held(Abandoning(S)) = S
                          /\ RequestOK(Abandoning(S))
                          /\ Abandoning(S).does # "abandon" => S = {}
BY DEF Held, Idle, Abandoning, RequestOK, HoldsOK

LEMMA HandingOut ==
    ASSUME FeesInv, NEW q \in Request, NEW n, Allocates(Fresh(n)), UNCHANGED <<payment, fees>>,
           NEW next, Sits(q, next), RequestOK(next), Held(next) = Fresh(n)
    PROVE  FeesInv'
<1>1. Sound(payment, fees, receipt) /\ receipt \in ReceiptTable
  BY DEF FeesInv, Sound
<1>2. Fresh(n) \subseteq Receipt /\ \A r \in Fresh(n) : receipt[r] = "unused"
  BY DEF Fresh, Unused
<1>3. /\ receipt' \in ReceiptTable
      /\ \A r \in Receipt : receipt'[r] = IF r \in Fresh(n) THEN "allocated" ELSE receipt[r]
  BY <1>1 DEF Allocates, ReceiptTable, ReceiptState
<1>4. Sound(payment', fees', receipt')
  BY <1>1, <1>2, <1>3, NumbersAreSound
<1>5. RequestOK(next)'
  BY DEF RequestOK
<1>6. HoldsOK(next)'
  BY <1>2, <1>3 DEF HoldsOK
<1>7. ASSUME NEW o \in Request \ {q}, NEW r \in Held(desk[o])
      PROVE  r \notin Fresh(n) /\ receipt'[r] = receipt[r]
  BY <1>2, <1>3 DEF FeesInv, DeskOK, HoldsOK
<1>8. DeskOK'
  BY <1>5, <1>6, <1>7, DeskStaysOK DEF FeesInv
<1> QED
  BY <1>4, <1>8 DEF FeesInv

\* A request that only sits down, or goes on with what it holds.
LEMMA SittingDown ==
    ASSUME FeesInv, NEW q \in Request, UNCHANGED <<receipt, payment>>, Sound(payment, fees', receipt),
           NEW next, Sits(q, next), RequestOK(next), HoldsOK(next), Held(next) \subseteq Held(desk[q])
    PROVE  FeesInv'
<1>1. Sound(payment', fees', receipt')
  OBVIOUS
<1>2. RequestOK(next)' /\ HoldsOK(next)'
  BY DEF RequestOK, HoldsOK
<1>3. \A o \in Request \ {q} : /\ Held(next) \cap Held(desk[o]) = {}
                               /\ \A r \in Held(desk[o]) : receipt'[r] = receipt[r]
  BY DEF FeesInv, DeskOK
<1>4. Issued(payment) \subseteq Issued(payment')
  OBVIOUS
<1>5. DeskOK'
  BY <1>2, <1>3, <1>4, DeskStaysOK DEF FeesInv
<1> QED
  BY <1>1, <1>5 DEF FeesInv

\* A commit that answers, or whose answer is lost and gives its numbers up.
LEMMA Answering ==
    ASSUME FeesInv, NEW q \in Request, Answers(q),
           Sound(payment', fees', receipt'), Issued(payment) \subseteq Issued(payment'),
           \A r \in Receipt : \/ receipt'[r] = receipt[r]
                              \/ r \in Held(desk[q]) /\ receipt'[r] # "unused"
    PROVE  FeesInv'
<1>1. PICK next \in {Idle, Abandoning(Held(desk[q]))} : Sits(q, next)
  BY DEF Answers
<1>2. /\ Held(next) \subseteq Held(desk[q]) /\ RequestOK(next)
      /\ next.does # "abandon" => Held(next) = {}
  BY <1>1, HeldBy
<1>3. RequestOK(next)'
  BY <1>1 DEF RequestOK, Idle, Abandoning
<1>4. HoldsOK(desk[q])
  BY DEF FeesInv, DeskOK
<1>5. HoldsOK(next)'
  BY <1>2, <1>4 DEF HoldsOK
<1>6. ASSUME NEW o \in Request \ {q}
      PROVE  /\ Held(next) \cap Held(desk[o]) = {}
             /\ \A r \in Held(desk[o]) : receipt'[r] = receipt[r]
  BY <1>2 DEF FeesInv, DeskOK, HoldsOK
<1>7. DeskOK'
  BY <1>1, <1>3, <1>5, <1>6, DeskStaysOK DEF FeesInv
<1> QED
  BY <1>7 DEF FeesInv

\* A step that leaves every request where it is.
LEMMA NobodyMoves ==
    ASSUME FeesInv, UNCHANGED <<desk, receipt, payment>>, Sound(payment, fees', receipt)
    PROVE  FeesInv'
<1>1. DeskOK'
  BY DEF FeesInv, DeskOK, RequestOK, HoldsOK
<1> QED
  BY <1>1 DEF FeesInv

----------------------------------------------------------------------------
(* Each step of the till *)

LEMMA BeginRecordKeeps ==
    ASSUME FeesInv, NEW q \in Request, NEW a \in Application, NEW o \in Officer, NEW method \in Offered,
           BeginRecord(q, a, o, method)
    PROVE  FeesInv'
<1>1. PICK next : /\ next = [does |-> "record", app |-> a, by |-> o, method |-> method, receipts |-> Fresh(1)]
                  /\ Sits(q, next)
  BY DEF BeginRecord
<1>2. RequestOK(next) /\ Held(next) = Fresh(1)
  BY <1>1 DEF RequestOK, Held
<1> QED
  BY <1>1, <1>2, HandingOut DEF BeginRecord

LEMMA BeginRefundKeeps ==
    ASSUME FeesInv, NEW q \in Request, NEW r \in Receipt, NEW o \in Officer, NEW method \in Offered,
           NEW lines \in SUBSET Component, BeginRefund(q, r, o, method, lines)
    PROVE  FeesInv'
<1>1. PICK next : /\ next = [does |-> "refund", of |-> r, by |-> o, method |-> method, lines |-> lines,
                             receipts |-> Fresh(1)]
                  /\ Sits(q, next)
  BY DEF BeginRefund
<1>2. RequestOK(next) /\ Held(next) = Fresh(1)
  BY <1>1 DEF RequestOK, Held, BeginRefund, Issued
<1> QED
  BY <1>1, <1>2, HandingOut DEF BeginRefund

LEMMA BeginSettleKeeps ==
    ASSUME FeesInv, NEW q \in Request, NEW x \in FeeTransfer, NEW o \in Officer, BeginSettle(q, x, o)
    PROVE  FeesInv'
<1>1. PICK next : /\ next = [does |-> "settle", x |-> x, receipts |-> Fresh(2)]
                  /\ Sits(q, next)
  BY DEF BeginSettle
<1>2. RequestOK(next) /\ Held(next) = Fresh(2)
  BY <1>1 DEF RequestOK, Held
<1> QED
  BY <1>1, <1>2, HandingOut DEF BeginSettle

\* What a handler writes is a row of the table.
LEMMA TakenIsRow ==
    ASSUME NEW a \in Application, NEW method \in Method, NEW o \in Officer, NEW d \in Drawer \cup {NoDrawer},
           NEW lines \in SUBSET Component
    PROVE  Taken(a, lines, method, o, d) \in Payment
BY DEF Taken, Payment

LEMMA DrawerIsOne ==
    ASSUME NEW o, NEW method, NEW d \in DrawerFor(o, method)
    PROVE  d \in Drawer \cup {NoDrawer}
BY DEF DrawerFor, OpenDrawers

LEMMA CommitRecordKeeps ==
    ASSUME FeesInv, NEW q \in Request, CommitRecord(q)
    PROVE  FeesInv'
<1> DEFINE a == desk[q].app
<1>1. /\ desk[q].does = "record" /\ a \in Application /\ desk[q].by \in Officer /\ desk[q].method \in Offered
      /\ Takings(payment, a) = {} /\ Held(desk[q]) = desk[q].receipts
      /\ \A r \in desk[q].receipts : r \in Receipt /\ receipt[r] = "allocated"
  BY DEF CommitRecord, NotReceipted, FeesInv, DeskOK, RequestOK, HoldsOK, Held
<1>2. PICK r \in desk[q].receipts, d \in DrawerFor(desk[q].by, desk[q].method) :
        /\ payment' = [payment EXCEPT ![r] = Taken(a, Component, desk[q].method, desk[q].by, d)]
        /\ receipt' = [receipt EXCEPT ![r] = "issued"]
  BY DEF CommitRecord
<1> DEFINE row == Taken(a, Component, desk[q].method, desk[q].by, d)
<1>3. d \in Drawer \cup {NoDrawer} /\ desk[q].method \in Method /\ desk[q].method # "member_transfer"
  BY <1>1, DrawerIsOne DEF Offered, Method
<1>4. row \in Payment
  BY <1>1, <1>3, TakenIsRow
<1>5. /\ row.kind = "payment" /\ row.of = NoReceipt /\ ~row.voided /\ row.app = a
      /\ row.method = desk[q].method
  BY DEF Taken
<1> HIDE DEF row
<1>6. Fits(payment, row)
  BY <1>1, <1>5 DEF Fits
<1>7. r \in Receipt /\ receipt[r] = "allocated" /\ row.method # "member_transfer"
  BY <1>1, <1>3, <1>5
<1>8. payment' = Added(payment, r, row) /\ receipt' = Issues(receipt, r) /\ fees' = fees
  BY <1>2 DEF Added, Issues, row, CommitRecord
<1>9. Sound(payment', fees', receipt')
  BY <1>4, <1>6, <1>7, <1>8, AddedIsSound DEF FeesInv
<1>10. payment \in PaymentTable /\ receipt \in ReceiptTable
  BY DEF FeesInv, Sound
<1>11. Issued(payment) \subseteq Issued(payment')
  BY <1>4, <1>8, <1>10, RowIsNotNone DEF Issued, Added, PaymentTable
<1>12. \A s \in Receipt : receipt'[s] = receipt[s] \/ (s \in Held(desk[q]) /\ receipt'[s] # "unused")
  BY <1>1, <1>8, <1>10 DEF Issues, ReceiptTable
<1> QED
  BY <1>9, <1>11, <1>12, Answering DEF CommitRecord

LEMMA CommitRefundKeeps ==
    ASSUME FeesInv, NEW q \in Request, CommitRefund(q)
    PROVE  FeesInv'
<1> DEFINE of == desk[q].of
           lines == desk[q].lines
<1>0. payment \in PaymentTable /\ receipt \in ReceiptTable
  BY DEF FeesInv, Sound
<1>1. /\ desk[q].does = "refund" /\ desk[q].by \in Officer /\ desk[q].method \in Offered
      /\ of \in Issued(payment) /\ lines \in SUBSET Component
      /\ Held(desk[q]) = desk[q].receipts
      /\ \A r \in desk[q].receipts : r \in Receipt /\ receipt[r] = "allocated"
  BY DEF CommitRefund, FeesInv, DeskOK, RequestOK, HoldsOK, Held
<1>2. PICK s \in desk[q].receipts, d \in DrawerFor(desk[q].by, desk[q].method) :
        /\ payment' = CarriedIfOpen(
                        [payment EXCEPT ![s] = Returned(of, lines, desk[q].method, desk[q].by, d)],
                        payment[of].app)
        /\ receipt' = [receipt EXCEPT ![s] = "issued"]
  BY DEF CommitRefund
<1> DEFINE row == Returned(of, lines, desk[q].method, desk[q].by, d)
           mid == Added(payment, s, row)
<1>3. d \in Drawer \cup {NoDrawer} /\ desk[q].method \in Method /\ desk[q].method # "member_transfer"
  BY <1>1, DrawerIsOne DEF Offered, Method
<1>4. /\ payment[of].app \in Application /\ of \in Receipt
  BY <1>0, <1>1 DEF PaymentTable, Payment, Issued
<1>5. Taken(payment[of].app, lines, desk[q].method, desk[q].by, d) \in Payment
  BY <1>1, <1>3, <1>4, TakenIsRow
<1>6. /\ row \in Payment /\ row.kind = "refund" /\ row.of = of /\ row.lines = lines /\ ~row.voided
      /\ row.method # "member_transfer"
  BY <1>1, <1>3, <1>4, <1>5 DEF Returned, Taken, Payment
<1> HIDE DEF row
<1>7. Fits(payment, row)
  BY <1>1, <1>6 DEF Fits, CommitRefund, WithinTaken
<1>8. Sound(mid, fees, Issues(receipt, s))
  BY <1>1, <1>6, <1>7, AddedIsSound DEF FeesInv
<1>9. mid \in PaymentTable
  BY <1>8 DEF Sound
<1>10. payment' = CarriedIfOpen(mid, payment[of].app) /\ receipt' = Issues(receipt, s) /\ fees' = fees
  BY <1>2 DEF Added, Issues, row, CommitRefund
<1> HIDE DEF mid
<1>11. payment' \in PaymentTable /\ Like(mid, payment')
  <2>1. Like(mid, mid)
    BY DEF Like
  <2> QED
    BY <1>9, <1>10, <2>1, CarriedIsLike DEF CarriedIfOpen
<1>12. Sound(payment', fees', receipt')
  BY <1>8, <1>10, <1>11, LikeIsSound
<1>13. Issued(payment) \subseteq Issued(mid) /\ Issued(mid) = Issued(payment')
  BY <1>0, <1>1, <1>6, <1>11, RowIsNotNone DEF mid, Issued, Added, PaymentTable, Like
<1>14. \A r \in Receipt : receipt'[r] = receipt[r] \/ (r \in Held(desk[q]) /\ receipt'[r] # "unused")
  BY <1>0, <1>1, <1>10 DEF Issues, ReceiptTable
<1> QED
  BY <1>12, <1>13, <1>14, Answering DEF CommitRefund

LEMMA BeginVoidKeeps ==
    ASSUME FeesInv, NEW q \in Request, NEW r \in Receipt, NEW o \in Officer, BeginVoid(q, r, o)
    PROVE  FeesInv'
<1>1. PICK next : next = [does |-> "void", of |-> r] /\ Sits(q, next)
  BY DEF BeginVoid
<1>2. RequestOK(next) /\ HoldsOK(next) /\ Held(next) = {}
  BY <1>1 DEF RequestOK, HoldsOK, Held, BeginVoid, Issued
<1> QED
  BY <1>1, <1>2, SittingDown DEF BeginVoid, money, FeesInv

LEMMA ReadVoidKeeps ==
    ASSUME FeesInv, NEW q \in Request, ReadVoid(q)
    PROVE  FeesInv'
<1>1. desk[q] = [does |-> "void", of |-> desk[q].of] /\ desk[q].of \in Issued(payment)
  BY DEF ReadVoid, FeesInv, DeskOK, RequestOK
<1>2. PICK next : next = [desk[q] EXCEPT !.does = "voids"] /\ Sits(q, next)
  BY DEF ReadVoid
<1>3. next = [does |-> "voids", of |-> desk[q].of]
  BY <1>1, <1>2
<1>4. RequestOK(next) /\ HoldsOK(next) /\ Held(next) = {}
  BY <1>1, <1>3 DEF RequestOK, HoldsOK, Held
<1> QED
  BY <1>2, <1>4, SittingDown DEF ReadVoid, money, FeesInv

LEMMA CommitVoidKeeps ==
    ASSUME FeesInv, NEW q \in Request, CommitVoid(q)
    PROVE  FeesInv'
<1> DEFINE r == desk[q].of
<1>1. r \in Issued(payment) /\ r \in Receipt /\ payment[r] # NoPayment
  BY DEF CommitVoid, FeesInv, DeskOK, RequestOK, Issued
<1>2. /\ payment' = [payment EXCEPT ![r].voided = TRUE] /\ receipt' = [receipt EXCEPT ![r] = "void"]
      /\ fees' = fees
  BY DEF CommitVoid, Voided
<1>3. Sound(payment', fees', receipt')
  BY <1>1, <1>2, VoidingIsSound DEF FeesInv
<1>4. payment' \in PaymentTable /\ payment \in PaymentTable /\ receipt \in ReceiptTable
  BY <1>3 DEF FeesInv, Sound
<1>5. Issued(payment) \subseteq Issued(payment')
  <2>1. payment[r] \in Payment
    BY <1>1, <1>4 DEF PaymentTable
  <2>2. [payment[r] EXCEPT !.voided = TRUE] \in Payment
    BY <2>1 DEF Payment
  <2> QED
    BY <1>1, <1>2, <1>4, <2>2, RowIsNotNone DEF Issued, PaymentTable
<1>6. receipt[r] # "allocated"
  BY <1>1 DEF FeesInv, Sound, Accounted, CarryingOn
<1>7. \A o \in Request \ {q} : \A s \in Held(desk[o]) :
          receipt'[s] = receipt[s] \/ (receipt[s] # "allocated" /\ receipt'[s] # "unused")
  BY <1>1, <1>2, <1>4, <1>6 DEF FeesInv, DeskOK, HoldsOK, ReceiptTable
<1>8. RequestOK(Idle)' /\ HoldsOK(Idle)' /\ Held(Idle) = {}
  BY DEF RequestOK, HoldsOK, Held, Idle
<1>9. DeskOK'
  BY <1>5, <1>7, <1>8, DeskStaysOK DEF FeesInv, CommitVoid
<1> QED
  BY <1>3, <1>9 DEF FeesInv

LEMMA BeginTransferKeeps ==
    ASSUME FeesInv, NEW q \in Request, NEW a \in Application, NEW o \in Officer, BeginTransfer(q, a, o)
    PROVE  FeesInv'
<1>1. PICK next : next = [does |-> "transfer", app |-> a, by |-> o] /\ Sits(q, next)
  BY DEF BeginTransfer
<1>2. RequestOK(next) /\ HoldsOK(next) /\ Held(next) = {}
  BY <1>1 DEF RequestOK, HoldsOK, Held
<1> QED
  BY <1>1, <1>2, SittingDown DEF BeginTransfer, money, FeesInv

LEMMA CommitTransferKeeps ==
    ASSUME FeesInv, NEW q \in Request, CommitTransfer(q)
    PROVE  FeesInv'
<1>1. desk[q].app \in Application /\ desk[q].by \in Officer
  BY DEF CommitTransfer, FeesInv, DeskOK, RequestOK
<1>2. PICK x \in FeeTransfer, route \in {"submitted", "approved"} :
        /\ fees[x] = NoTransfer
        /\ fees' = [fees EXCEPT ![x] =
                     [app |-> desk[q].app, by |-> desk[q].by, status |-> route,
                      paid |-> NoReceipt, receipt |-> NoReceipt, reversed |-> FALSE]]
  BY DEF CommitTransfer
<1>3. Sound(payment, fees, receipt) /\ fees \in FeeTable
  BY DEF FeesInv, Sound
<1>4. PICK row : row = [app |-> desk[q].app, by |-> desk[q].by, status |-> route,
                        paid |-> NoReceipt, receipt |-> NoReceipt, reversed |-> FALSE]
  OBVIOUS
<1>5. row \in FeeRow /\ row.status # "posted" /\ row.paid = NoReceipt /\ ~row.reversed
  BY <1>1, <1>4 DEF FeeRow, Live
<1>6. fees'[x] = row /\ fees' \in FeeTable /\ \A y \in FeeTransfer : y # x => fees'[y] = fees[y]
  BY <1>2, <1>3, <1>4, <1>5 DEF FeeTable
<1>7. fees[x].status # "posted"
  BY <1>2 DEF NoTransfer
<1>8. PostedFirst(fees')
  BY <1>3, <1>5, <1>6 DEF PostedFirst, Sound
<1>9. \A y \in FeeTransfer : fees'[y] # NoTransfer => Receipted(payment, fees'[y])
  BY <1>3, <1>5, <1>6 DEF Sound, PaidOnce, Receipted
<1>10. Sound(payment, fees', receipt)
  BY <1>3, <1>5, <1>6, <1>7, <1>8, <1>9, TransfersAreSound
<1> QED
  BY <1>10, HeldBy, SittingDown DEF CommitTransfer

LEMMA CommitSettleKeeps ==
    ASSUME FeesInv, NEW q \in Request, CommitSettle(q)
    PROVE  FeesInv'
<1> DEFINE x == desk[q].x
<1>0. Sound(payment, fees, receipt) /\ payment \in PaymentTable /\ receipt \in ReceiptTable /\ fees \in FeeTable
  BY DEF FeesInv, Sound
<1>1. /\ desk[q].does = "settle" /\ x \in FeeTransfer /\ fees[x].status = "approved"
      /\ Takings(payment, fees[x].app) = {} /\ Held(desk[q]) = desk[q].receipts
      /\ \A r \in desk[q].receipts : r \in Receipt /\ receipt[r] = "allocated"
  BY DEF CommitSettle, NotReceipted, FeesInv, DeskOK, RequestOK, HoldsOK, Held
<1>2. PICK r \in desk[q].receipts : \E s \in desk[q].receipts \ {r} :
        /\ payment' = [payment EXCEPT ![s] =
                        Taken(fees[x].app, Component, "member_transfer", fees[x].by, NoDrawer)]
        /\ receipt' = [receipt EXCEPT ![r] = "issued", ![s] = "issued"]
        /\ fees' = [fees EXCEPT ![x].status = "posted", ![x].paid = s, ![x].receipt = r]
  BY DEF CommitSettle
<1>3. PICK s \in desk[q].receipts \ {r} :
        /\ payment' = [payment EXCEPT ![s] =
                        Taken(fees[x].app, Component, "member_transfer", fees[x].by, NoDrawer)]
        /\ receipt' = [receipt EXCEPT ![r] = "issued", ![s] = "issued"]
        /\ fees' = [fees EXCEPT ![x].status = "posted", ![x].paid = s, ![x].receipt = r]
  BY <1>2
<1> DEFINE row == Taken(fees[x].app, Component, "member_transfer", fees[x].by, NoDrawer)
<1>4. fees[x].app \in Application /\ fees[x].by \in Officer
  <2>1. fees[x] \in FeeRow
    BY <1>0, <1>1 DEF FeeTable, NoTransfer
  <2> QED
    BY <2>1 DEF FeeRow
<1>5. row \in Payment
  BY <1>4, TakenIsRow DEF Method
<1>6. row.kind = "payment" /\ row.of = NoReceipt /\ ~row.voided /\ row.app = fees[x].app
  BY DEF Taken
<1> HIDE DEF row
<1>7. Fits(payment, row)
  BY <1>1, <1>6 DEF Fits
<1>8. /\ payment' = Added(payment, s, row) /\ receipt' = Issues(Issues(receipt, r), s)
      /\ fees' = Posts(fees, x, r, s)
  BY <1>0, <1>1, <1>3 DEF Added, Issues, Posts, row, ReceiptTable, FeeTable
<1>9. Sound(payment', fees', receipt')
  BY <1>0, <1>1, <1>5, <1>6, <1>7, <1>8, SettlingIsSound
<1>10. Issued(payment) \subseteq Issued(payment')
  BY <1>0, <1>5, <1>8, RowIsNotNone DEF Issued, Added, PaymentTable
<1>11. \A t \in Receipt : receipt'[t] = receipt[t] \/ (t \in Held(desk[q]) /\ receipt'[t] # "unused")
  BY <1>0, <1>1, <1>3, <1>8 DEF Issues, ReceiptTable
<1> QED
  BY <1>9, <1>10, <1>11, Answering DEF CommitSettle

\* A transfer whose status or reversal alone changes, before it posts or after.
LEMMA TransferMoves ==
    ASSUME FeesInv, NEW x \in FeeTransfer, NEW row \in FeeRow, fees[x] # NoTransfer,
           fees' = [fees EXCEPT ![x] = row], UNCHANGED <<receipt, payment>>,
           row.app = fees[x].app, row.paid = fees[x].paid, row.receipt = fees[x].receipt,
           row.status = "posted" <=> fees[x].status = "posted",
           row.reversed => row.status = "posted" /\ payment[row.paid].voided
    PROVE  Sound(payment, fees', receipt)
<1>1. Sound(payment, fees, receipt) /\ fees \in FeeTable
  BY DEF FeesInv, Sound
<1>2. fees'[x] = row /\ fees' \in FeeTable /\ \A y \in FeeTransfer : y # x => fees'[y] = fees[y]
  BY <1>1 DEF FeeTable
<1>3. PostedFirst(fees')
  BY <1>1, <1>2 DEF PostedFirst, Sound
<1>4. Receipted(payment, row)
  BY <1>1 DEF Sound, PaidOnce, Receipted
<1>5. \A y \in FeeTransfer : fees'[y] # NoTransfer => Receipted(payment, fees'[y])
  BY <1>1, <1>2, <1>4 DEF Sound, PaidOnce
<1>6. \A y \in FeeTransfer :
        /\ fees'[y].status = "posted" <=> fees[y].status = "posted"
        /\ fees[y].status = "posted" => fees'[y].receipt = fees[y].receipt /\ fees'[y].paid = fees[y].paid
  BY <1>2
<1> QED
  BY <1>1, <1>2, <1>3, <1>5, <1>6, TransfersAreSound

LEMMA ReviewKeeps ==
    ASSUME FeesInv, NEW x \in FeeTransfer, NEW to \in Live \cup {"rejected"}, Review(x, to)
    PROVE  FeesInv'
<1>1. fees[x] # NoTransfer /\ fees[x].status # "posted" /\ to # "posted"
  BY DEF Review, NoTransfer, Live
<1>2. fees[x] \in FeeRow /\ ~fees[x].reversed
  BY <1>1 DEF FeesInv, Sound, FeeTable, PostedFirst
<1>3. PICK row : row = [fees[x] EXCEPT !.status = to]
  OBVIOUS
<1>4. /\ row \in FeeRow /\ row.app = fees[x].app /\ row.paid = fees[x].paid
      /\ row.receipt = fees[x].receipt /\ row.status = to /\ ~row.reversed
  BY <1>2, <1>3 DEF FeeRow
<1>5. fees' = [fees EXCEPT ![x] = row]
  BY <1>3 DEF Review
<1> QED
  BY <1>1, <1>4, <1>5, TransferMoves, NobodyMoves DEF Review

LEMMA CancelKeeps ==
    ASSUME FeesInv, NEW x \in FeeTransfer, Cancel(x)
    PROVE  FeesInv'
<1>1. fees[x] # NoTransfer /\ fees[x].status # "posted"
  BY DEF Cancel, NoTransfer, Live
<1>2. fees[x] \in FeeRow /\ ~fees[x].reversed
  BY <1>1 DEF FeesInv, Sound, FeeTable, PostedFirst
<1>3. PICK row : row = [fees[x] EXCEPT !.status = "cancelled"]
  OBVIOUS
<1>4. /\ row \in FeeRow /\ row.app = fees[x].app /\ row.paid = fees[x].paid
      /\ row.receipt = fees[x].receipt /\ row.status = "cancelled" /\ ~row.reversed
  BY <1>2, <1>3 DEF FeeRow
<1>5. fees' = [fees EXCEPT ![x] = row]
  BY <1>3 DEF Cancel
<1> QED
  BY <1>1, <1>4, <1>5, TransferMoves, NobodyMoves DEF Cancel

LEMMA ReverseKeeps ==
    ASSUME FeesInv, NEW x \in FeeTransfer, Reverse(x)
    PROVE  FeesInv'
<1>1. fees[x] # NoTransfer /\ fees[x].status = "posted" /\ payment[fees[x].paid].voided
  BY DEF Reverse, MayReverse, NoTransfer
<1>2. fees[x] \in FeeRow
  BY <1>1 DEF FeesInv, Sound, FeeTable
<1>3. PICK row : row = [fees[x] EXCEPT !.reversed = TRUE]
  OBVIOUS
<1>4. /\ row \in FeeRow /\ row.app = fees[x].app /\ row.paid = fees[x].paid
      /\ row.receipt = fees[x].receipt /\ row.status = "posted"
  BY <1>1, <1>2, <1>3 DEF FeeRow
<1>5. fees' = [fees EXCEPT ![x] = row]
  BY <1>3 DEF Reverse
<1> QED
  BY <1>1, <1>4, <1>5, TransferMoves, NobodyMoves DEF Reverse

\* The drawers say nothing of the payments.
LEMMA BeginCloseKeeps ==
    ASSUME FeesInv, NEW q \in Request, NEW d \in Drawer, BeginClose(q, d)
    PROVE  FeesInv'
<1>1. PICK next : next = [does |-> "close", d |-> d, expected |-> Figure(d)] /\ Sits(q, next)
  BY DEF BeginClose
<1>2. RequestOK(next) /\ HoldsOK(next) /\ Held(next) = {}
  BY <1>1 DEF RequestOK, HoldsOK, Held
<1> QED
  BY <1>1, <1>2, SittingDown DEF BeginClose, money, FeesInv

LEMMA CommitCloseKeeps ==
    ASSUME FeesInv, NEW q \in Request, CommitClose(q)
    PROVE  FeesInv'
BY HeldBy, SittingDown DEF CommitClose, FeesInv

LEMMA OpenKeeps ==
    ASSUME FeesInv, NEW o \in Officer, NEW d \in Drawer, Open(o, d)
    PROVE  FeesInv'
BY NobodyMoves DEF Open, FeesInv

\* What fails keeps its numbers until it has given them up; what dies never does.
LEMMA FailsKeeps ==
    ASSUME FeesInv, NEW q \in Request, Fails(q)
    PROVE  FeesInv'
<1>1. PICK next : next = Abandoning(Held(desk[q])) /\ Sits(q, next)
  BY DEF Fails
<1>2. RequestOK(next) /\ Held(next) = Held(desk[q]) /\ (next.does # "abandon" => Held(next) = {})
  BY <1>1, HeldBy
<1>3. HoldsOK(desk[q])
  BY DEF FeesInv, DeskOK
<1>4. HoldsOK(next)
  BY <1>2, <1>3 DEF HoldsOK
<1> QED
  BY <1>1, <1>2, <1>4, SittingDown DEF Fails, money, FeesInv

LEMMA DieKeeps ==
    ASSUME FeesInv, NEW q \in Request, Dies(q), UNCHANGED <<receipt, payment, fees>>
    PROVE  FeesInv'
BY HeldBy, SittingDown DEF Dies, FeesInv

LEMMA AbandonsKeeps ==
    ASSUME FeesInv, NEW q \in Request, Abandons(q)
    PROVE  FeesInv'
<1>1. Sound(payment, fees, receipt) /\ receipt \in ReceiptTable /\ Held(desk[q]) = desk[q].receipts
  BY DEF FeesInv, Sound, Abandons, Held
<1>2. /\ receipt' \in ReceiptTable
      /\ \A r \in Receipt :
           receipt'[r] = IF r \in Held(desk[q]) /\ receipt[r] = "allocated" THEN "abandoned" ELSE receipt[r]
  BY <1>1 DEF Abandons, ReceiptTable, ReceiptState
<1>3. Sound(payment', fees', receipt')
  BY <1>1, <1>2, NumbersAreSound DEF Abandons
<1>4. \A o \in Request \ {q} : \A r \in Held(desk[o]) : receipt'[r] = receipt[r]
  BY <1>2 DEF FeesInv, DeskOK, HoldsOK
<1>5. RequestOK(Idle)' /\ HoldsOK(Idle)' /\ Held(Idle) = {} /\ Sits(q, Idle) /\ payment' = payment
  BY DEF RequestOK, HoldsOK, Held, Idle, Abandons
<1>6. DeskOK'
  BY <1>4, <1>5, DeskStaysOK DEF FeesInv
<1> QED
  BY <1>3, <1>6 DEF FeesInv

\* Every step of the till, whatever specification takes it.
LEMMA FeeStepKeeps ==
    ASSUME FeesInv, FeeStep
    PROVE  FeesInv'
<1>1. ASSUME NEW q \in Request, NEW a \in Application, NEW o \in Officer, NEW method \in Offered,
             BeginRecord(q, a, o, method)
      PROVE  FeesInv'
  BY <1>1, BeginRecordKeeps
<1>2. ASSUME NEW q \in Request, NEW r \in Receipt, NEW o \in Officer, NEW method \in Offered,
             NEW lines \in SUBSET Component, BeginRefund(q, r, o, method, lines)
      PROVE  FeesInv'
  BY <1>2, BeginRefundKeeps
<1>3. ASSUME NEW q \in Request, NEW o \in Officer,
             \/ \E r \in Receipt : BeginVoid(q, r, o)
             \/ \E a \in Application : BeginTransfer(q, a, o)
             \/ \E x \in FeeTransfer : BeginSettle(q, x, o)
             \/ \E d \in Drawer : BeginClose(q, d) \/ Open(o, d)
      PROVE  FeesInv'
  BY <1>3, BeginVoidKeeps, BeginTransferKeeps, BeginSettleKeeps, BeginCloseKeeps, OpenKeeps
<1>4. ASSUME NEW q \in Request,
             \/ CommitRecord(q) \/ CommitRefund(q) \/ ReadVoid(q) \/ CommitVoid(q)
             \/ CommitTransfer(q) \/ CommitSettle(q) \/ CommitClose(q)
             \/ Abandons(q) \/ Fails(q) \/ Die(q)
      PROVE  FeesInv'
  <2>1. CASE CommitRecord(q) \/ CommitRefund(q) \/ ReadVoid(q) \/ CommitVoid(q)
    BY <2>1, CommitRecordKeeps, CommitRefundKeeps, ReadVoidKeeps, CommitVoidKeeps
  <2>2. CASE CommitTransfer(q) \/ CommitSettle(q) \/ CommitClose(q)
    BY <2>2, CommitTransferKeeps, CommitSettleKeeps, CommitCloseKeeps
  <2>3. CASE Abandons(q) \/ Fails(q) \/ Die(q)
    BY <2>3, AbandonsKeeps, FailsKeeps, DieKeeps DEF Die, money
  <2> QED
    BY <1>4, <2>1, <2>2, <2>3
<1>5. ASSUME NEW x \in FeeTransfer,
             \/ \E to \in Live \cup {"rejected"} : Review(x, to)
             \/ Cancel(x) \/ Reverse(x)
      PROVE  FeesInv'
  BY <1>5, ReviewKeeps, CancelKeeps, ReverseKeeps
<1>6. ASSUME NEW o \in Officer, NEW d \in Drawer, Open(o, d)
      PROVE  FeesInv'
  BY <1>6, OpenKeeps
<1>7. ASSUME NEW q \in Request, NEW d \in Drawer, BeginClose(q, d)
      PROVE  FeesInv'
  BY <1>7, BeginCloseKeeps
<1> QED
  BY <1>1, <1>2, <1>3, <1>4, <1>5, <1>6, <1>7 DEF FeeStep

\* The receipts of an application go onto the accounts it opened.
LEMMA CarryingKeeps ==
    ASSUME FeesInv, NEW a, payment' = Carried(payment, a), UNCHANGED <<receipt, fees, desk>>
    PROVE  FeesInv'
<1>1. payment \in PaymentTable
  BY DEF FeesInv, Sound
<1>2. payment' \in PaymentTable /\ Like(payment, payment')
  BY <1>1, CarriedIsLike
<1>3. Sound(payment', fees', receipt')
  BY <1>2, LikeIsSound DEF FeesInv
<1>4. Issued(payment') = Issued(payment)
  BY <1>2 DEF Like, Issued
<1>5. DeskOK'
  BY <1>4 DEF FeesInv, DeskOK, RequestOK, HoldsOK
<1> QED
  BY <1>3, <1>5 DEF FeesInv

LEMMA EmptyTillIsSound == EmptyTill => FeesInv
<1> SUFFICES ASSUME EmptyTill
             PROVE  FeesInv
  OBVIOUS
<1>1. Issued(payment) = {} /\ \A a : Takings(payment, a) = {}
  BY DEF EmptyTill, Issued, Takings
<1>2. \A x \in FeeTransfer : fees[x] = NoTransfer /\ fees[x].status # "posted"
  BY DEF EmptyTill, NoTransfer
<1>3. /\ payment \in PaymentTable /\ fees \in FeeTable /\ receipt \in ReceiptTable
      /\ \A r \in Receipt : receipt[r] = "unused"
  BY DEF EmptyTill, PaymentTable, FeeTable, ReceiptTable, ReceiptState
<1>4. Sound(payment, fees, receipt)
  BY <1>1, <1>2, <1>3 DEF Sound, Pointed, PostedFirst, OneLive, Accounted, CarryingOn, Within, PaidOnce, Issued
<1>5. DeskOK
  BY HeldBy DEF EmptyTill, DeskOK
<1> QED
  BY <1>4, <1>5 DEF FeesInv

----------------------------------------------------------------------------
(* The theorems about Fees *)

\* The tables and the requests under way stay as FeesInv says, for every
\* interleaving of the handlers with decisions taken at any moment.
THEOREM FeesInvariant == FeesSpec => []FeesInv
<1>1. FeesInit => FeesInv
  BY EmptyTillIsSound DEF FeesInit
<1>2. FeesInv /\ [FeesNext]_feeVars => FeesInv'
  <2> SUFFICES ASSUME FeesInv, [FeesNext]_feeVars
               PROVE  FeesInv'
    OBVIOUS
  <2>1. CASE FeeStep
    BY <2>1, FeeStepKeeps
  <2>2. ASSUME NEW a \in Application, Approve(a)
        PROVE  FeesInv'
    BY <2>2, CarryingKeeps DEF Approve
  <2>3. ASSUME NEW a \in Application, Reject(a) \/ Reopen(a)
        PROVE  FeesInv'
    BY <2>3, NobodyMoves DEF Reject, Reopen, money, FeesInv
  <2>4. CASE UNCHANGED feeVars
    BY <2>4, NobodyMoves DEF feeVars, money, FeesInv
  <2> QED
    BY <2>1, <2>2, <2>3, <2>4 DEF FeesNext
<1> QED
  BY <1>1, <1>2, PTL DEF FeesSpec

LEMMA FeesInvMeans ==
    FeesInv => TillOK /\ OneLivePayment /\ ReceiptsAccounted /\ RefundsWithinTaken /\ TransfersPayOnce
BY SoundTables DEF FeesInv

\* The tables are of their types, a refund is of a payment there is, and only
\* a posted transfer is reversed.
THEOREM TillType == FeesSpec => []TillOK
BY FeesInvariant, FeesInvMeans, PTL

\* However many officers record, settle, refund and void at once, and
\* whatever each of them had read, an application has one receipt that stands.
THEOREM OneReceipt == FeesSpec => []OneLivePayment
BY FeesInvariant, FeesInvMeans, PTL

\* Every receipt number is accounted for: what it says became of it is what
\* became of it, after any failure, lost answer or death.
THEOREM EveryNumberAccounted == FeesSpec => []ReceiptsAccounted
BY FeesInvariant, FeesInvMeans, PTL

\* Refunds under way together never give back more than was taken.
THEOREM NeverOverRefunded == FeesSpec => []RefundsWithinTaken
BY FeesInvariant, FeesInvMeans, PTL

\* A fee transfer posts exactly with its receipt, and is only undone once
\* that is void.
THEOREM TransferAndReceipt == FeesSpec => []TransfersPayOnce
BY FeesInvariant, FeesInvMeans, PTL


----------------------------------------------------------------------------
(* The till, with the papers and the workflow around it *)

\* A request that neither holds a number nor is one of the till's.
Elsewhere == {"nothing", "file", "check", "delete", "submit", "review", "decide", "sign", "reopen"}

LEMMA ElsewhereHoldsNothing ==
    ASSUME NEW next, next.does \in Elsewhere
    PROVE  RequestOK(next) /\ HoldsOK(next) /\ Held(next) = {}
BY DEF Elsewhere, RequestOK, HoldsOK, Held

LEMMA PapersLeaveTheTill ==
    ASSUME FeesInv, PaperStep, UNCHANGED <<receipt, payment, fees>>
    PROVE  FeesInv'
<1>1. ASSUME NEW q \in Request, NEW next, Sits(q, next), RequestOK(next), HoldsOK(next), Held(next) = {}
      PROVE  FeesInv'
  BY <1>1, SittingDown DEF FeesInv
<1>2. ASSUME desk' = desk
      PROVE  FeesInv'
  BY <1>2, NobodyMoves DEF FeesInv
<1>3. \A q \in Request : RequestOK(desk[q])
  BY DEF FeesInv, DeskOK
<1>4. ASSUME NEW q \in Request, NEW v \in Version, BeginCommit(q, v)
      PROVE  FeesInv'
  <2>1. PICK next : next = [does |-> "look", v |-> v, by |-> version[v].by] /\ Sits(q, next)
    BY <1>4 DEF BeginCommit
  <2>2. RequestOK(next) /\ HoldsOK(next) /\ Held(next) = {}
    BY <2>1 DEF RequestOK, HoldsOK, Held
  <2> QED
    BY <1>1, <2>1, <2>2
<1>5. ASSUME NEW q \in Request, Look(q)
      PROVE  FeesInv'
  <2>1. CASE Sits(q, Idle)
    BY <1>1, <2>1, HeldBy
  <2>2. CASE Sits(q, [desk[q] EXCEPT !.does = "file"])
    <3>1. PICK next : next = [desk[q] EXCEPT !.does = "file"] /\ Sits(q, next)
      BY <2>2
    <3>2. desk[q] = [does |-> "look", v |-> desk[q].v, by |-> desk[q].by]
      BY <1>3, <1>5 DEF RequestOK, Look
    <3>3. next.does \in Elsewhere
      BY <3>1, <3>2 DEF Elsewhere
    <3> QED
      BY <1>1, <3>1, <3>3, ElsewhereHoldsNothing
  <2> QED
    BY <1>5, <2>1, <2>2 DEF Look
<1>6. ASSUME NEW q \in Request, CommitRemove(q)
      PROVE  FeesInv'
  <2>1. PICK next : next = [desk[q] EXCEPT !.does = "delete"] /\ Sits(q, next)
    BY <1>6 DEF CommitRemove
  <2>2. desk[q] = [does |-> "remove", v |-> desk[q].v, by |-> desk[q].by]
    BY <1>3, <1>6 DEF RequestOK, CommitRemove
  <2>3. next.does \in Elsewhere
    BY <2>1, <2>2 DEF Elsewhere
  <2> QED
    BY <1>1, <2>1, <2>3, ElsewhereHoldsNothing
<1>7. ASSUME NEW q \in Request, CommitUpload(q) \/ DeleteFile(q) \/ CommitCheck(q)
      PROVE  FeesInv'
  BY <1>1, <1>7, HeldBy DEF CommitUpload, DeleteFile, CommitCheck
<1>8. ASSUME NEW q \in Request, NEW d \in Document, NEW o \in Officer, BeginRemove(q, d, o)
      PROVE  FeesInv'
  <2>1. PICK v \in LiveFilings(d) : Sits(q, [does |-> "remove", v |-> v, by |-> o])
    BY <1>8 DEF BeginRemove
  <2>2. PICK next : next = [does |-> "remove", v |-> v, by |-> o] /\ Sits(q, next)
    BY <2>1
  <2>3. RequestOK(next) /\ HoldsOK(next) /\ Held(next) = {}
    BY <2>2 DEF RequestOK, HoldsOK, Held
  <2> QED
    BY <1>1, <2>2, <2>3
<1>9. ASSUME NEW q \in Request, NEW d \in Document, NEW o \in Officer, NEW verdict \in {"verified", "rejected"},
             BeginCheck(q, d, o, verdict)
      PROVE  FeesInv'
  <2>1. PICK next : next = [does |-> "check", doc |-> d, by |-> o, verdict |-> verdict] /\ Sits(q, next)
    BY <1>9 DEF BeginCheck
  <2> QED
    BY <1>1, <2>1, ElsewhereHoldsNothing DEF Elsewhere
<1>10. ASSUME \/ \E v \in Version, d \in Document, o \in Officer : BeginUpload(v, d, o)
              \/ \E v \in Version : Arrives(v)
              \/ \E d \in Document : Expire(d)
       PROVE  FeesInv'
  BY <1>2, <1>10 DEF BeginUpload, Arrives, Expire
<1> QED
  BY <1>4, <1>5, <1>6, <1>7, <1>8, <1>9, <1>10 DEF PaperStep

\* The receipts go onto accounts in the same transaction as the request ends.
LEMMA CarryingEnds ==
    ASSUME FeesInv, NEW a, payment' = Carried(payment, a), UNCHANGED <<receipt, fees>>,
           NEW q \in Request, Sits(q, Idle)
    PROVE  FeesInv'
<1>1. payment \in PaymentTable
  BY DEF FeesInv, Sound
<1>2. payment' \in PaymentTable /\ Like(payment, payment')
  BY <1>1, CarriedIsLike
<1>3. Sound(payment', fees', receipt')
  BY <1>2, LikeIsSound DEF FeesInv
<1>4. Issued(payment') = Issued(payment)
  BY <1>2 DEF Like, Issued
<1>5. RequestOK(Idle)' /\ HoldsOK(Idle)' /\ Held(Idle) = {}
  BY DEF RequestOK, HoldsOK, Held, Idle
<1>6. DeskOK'
  BY <1>4, <1>5, DeskStaysOK DEF FeesInv
<1> QED
  BY <1>3, <1>6 DEF FeesInv

LEMMA FlowLeavesTheTill ==
    ASSUME FeesInv, FlowStep
    PROVE  FeesInv'
<1>1. ASSUME NEW q \in Request, NEW next, Sits(q, next), next.does \in Elsewhere,
             UNCHANGED <<receipt, payment, fees>>
      PROVE  FeesInv'
  BY <1>1, ElsewhereHoldsNothing, SittingDown DEF FeesInv
<1>2. Idle.does \in Elsewhere
  BY DEF Idle, Elsewhere
<1>3. ASSUME NEW q \in Request, NEW a \in Application, NEW o \in Officer, BeginSubmit(q, a, o)
      PROVE  FeesInv'
  <2>1. PICK next : /\ next = [does |-> "submit", app |-> a, by |-> o, to |-> ToStatus("capture"),
                               oversight |-> Oversight(o, a)]
                    /\ Sits(q, next)
    BY <1>3 DEF BeginSubmit
  <2> QED
    BY <1>1, <1>3, <2>1 DEF Elsewhere, BeginSubmit, money
<1>4. ASSUME NEW q \in Request, NEW a \in Application, NEW o \in Officer, BeginReopen(q, a, o)
      PROVE  FeesInv'
  <2>1. PICK next : next = [does |-> "reopen", app |-> a] /\ Sits(q, next)
    BY <1>4 DEF BeginReopen
  <2> QED
    BY <1>1, <1>4, <2>1 DEF Elsewhere, BeginReopen, money
<1>5. ASSUME NEW q \in Request, NEW a \in Application, NEW o \in Officer, NEW outcome \in {"approve", "reject"},
             BeginDecide(q, a, o, outcome)
      PROVE  FeesInv'
  <2>1. PICK next : /\ next = [does |-> "decide", app |-> a, by |-> o, outcome |-> outcome,
                               to |-> ToStatus("president_decision")]
                    /\ Sits(q, next)
    BY <1>5 DEF BeginDecide
  <2> QED
    BY <1>1, <1>5, <2>1 DEF Elsewhere, BeginDecide, money
<1>6. ASSUME NEW q \in Request, NEW a \in Application, NEW o \in Officer, NEW s \in Step, NEW forward \in BOOLEAN,
             BeginReview(q, a, o, s, forward)
      PROVE  FeesInv'
  <2>1. PICK next : /\ next = [does |-> "review", app |-> a, by |-> o, step |-> s,
                               to |-> IF forward THEN ToStatus(s) ELSE "returned"]
                    /\ Sits(q, next)
    BY <1>6 DEF BeginReview
  <2> QED
    BY <1>1, <1>6, <2>1 DEF Elsewhere, BeginReview, money
<1>7. ASSUME NEW q \in Request, Count(q)
      PROVE  FeesInv'
  <2>1. PICK next : /\ next = [does |-> "sign", app |-> desk[q].app, by |-> desk[q].by,
                               outcome |-> desk[q].outcome, to |-> desk[q].to,
                               done |-> desk[q].outcome = "reject" \/ Enough(q)]
                    /\ Sits(q, next)
    BY <1>7 DEF Count
  <2> QED
    BY <1>1, <1>7, <2>1 DEF Elsewhere, Count, money
<1>8. ASSUME NEW q \in Request,
             CommitSubmit(q) \/ CommitReview(q) \/ CommitReopen(q) \/ CommitSignoff(q) \/ CommitReject(q)
      PROVE  FeesInv'
  BY <1>1, <1>2, <1>8 DEF CommitSubmit, CommitReview, CommitReopen, CommitSignoff, CommitReject, Signs, money
<1>9. ASSUME NEW q \in Request, CommitApprove(q)
      PROVE  FeesInv'
  BY <1>9, CarryingEnds DEF CommitApprove, Signs
<1>10. ASSUME NEW s \in Step, Switch(s)
       PROVE  FeesInv'
  BY <1>10, NobodyMoves DEF Switch, money, FeesInv
<1> QED
  BY <1>3, <1>4, <1>5, <1>6, <1>7, <1>8, <1>9, <1>10 DEF FlowStep

\* The till keeps what FeesInv says with the whole workflow around it.
THEOREM TillUnderWorkflow == Spec => []FeesInv
<1>1. Init => FeesInv
  BY EmptyTillIsSound DEF Init
<1>2. FeesInv /\ [Next]_vars => FeesInv'
  <2> SUFFICES ASSUME FeesInv, [Next]_vars
               PROVE  FeesInv'
    OBVIOUS
  <2>1. CASE FeeStep
    BY <2>1, FeeStepKeeps
  <2>2. CASE PaperStep /\ UNCHANGED <<opened, money, flow>>
    BY <2>2, PapersLeaveTheTill DEF money
  <2>3. CASE FlowStep
    BY <2>3, FlowLeavesTheTill
  <2>4. CASE UNCHANGED vars
    BY <2>4, NobodyMoves DEF vars, money, FeesInv
  <2> QED
    BY <2>1, <2>2, <2>3, <2>4 DEF Next
<1> QED
  BY <1>1, <1>2, PTL DEF Spec

\* An application is receipted once, with its papers, reviews and decisions
\* going on around the payment.
THEOREM OneReceiptUnderWorkflow == Spec => []OneLivePayment
BY TillUnderWorkflow, FeesInvMeans, PTL

----------------------------------------------------------------------------
(* The quorum *)

\* What a request of the workflow carries from its reads to its commit: only
\* a decision can make an application read approved, and one to approve it
\* has counted enough sign-offs.
CarriesOK(request) ==
    /\ request.does \in {"submit", "review"} => request.to # "approved"
    /\ request.does \in {"submit", "review", "decide", "sign", "reopen"} => request.app \in Application
    /\ request.does \in {"decide", "sign"} => request.by \in Officer
    /\ (request.does = "sign" /\ request.done /\ request.outcome = "approve") =>
         Cardinality(Approvals(request.app) \cup {request.by}) >= Quorum

QuorumInv ==
    /\ status = [a \in Application |-> status[a]] /\ opened \subseteq Application
    /\ desk = [q \in Request |-> desk[q]]
    /\ \A q \in Request : CarriesOK(desk[q])
    /\ \A a \in Application : IsFiniteSet(Approvals(a))
    /\ AdmittedByQuorum

\* Where each step takes an application.
LEMMA OnlyTheBoardApproves ==
    /\ ToStatus("capture") # "approved"
    /\ ToStatus("regional_review") # "approved"
    /\ ToStatus("secretary_review") # "approved"
<1>1. DOMAIN Moves = 1..3 /\ Moves[1] = "capture" /\ Moves[2] = "secretary_review" /\ Moves[3] = "president_decision"
  BY DEF Moves
<1>2. (CHOOSE i \in DOMAIN Moves : Moves[i] = "capture") = 1
  BY <1>1
<1>3. (CHOOSE i \in DOMAIN Moves : Moves[i] = "secretary_review") = 2
  BY <1>1
<1>4. Place("capture") = 1 /\ Place("regional_review") = 2 /\ Place("secretary_review") = 2
  BY <1>2, <1>3 DEF Place, Gate
<1>5. Stage[2] = "new" /\ Stage[3] = "submitted_for_approval"
  BY DEF Stage
<1> QED
  BY <1>4, <1>5 DEF ToStatus, Gate

\* Sign-offs only gather, so what has been counted stays counted.
LEMMA SignoffsGather ==
    ASSUME NEW request, CarriesOK(request), signoffs \subseteq signoffs',
           \A a \in Application : IsFiniteSet(Approvals(a))'
    PROVE  CarriesOK(request)'
<1>1. CASE request.does = "sign" /\ request.done /\ request.outcome = "approve"
  <2>1. request.app \in Application /\ Cardinality(Approvals(request.app) \cup {request.by}) >= Quorum
    BY <1>1 DEF CarriesOK
  <2>2. Approvals(request.app) \subseteq Approvals(request.app)'
    BY DEF Approvals
  <2> DEFINE now == Approvals(request.app) \cup {request.by}
             then == Approvals(request.app)' \cup {request.by}
  <2>3. IsFiniteSet(Approvals(request.app)')
    BY <2>1
  <2>4. IsFiniteSet(then)
    BY <2>3, FS_AddElement
  <2>5. now \in SUBSET then
    BY <2>2
  <2>6. IsFiniteSet(now) /\ Cardinality(now) <= Cardinality(then)
    BY <2>4, <2>5, FS_Subset
  <2>7. Cardinality(now) \in Nat /\ Cardinality(then) \in Nat
    BY <2>4, <2>6, FS_CardinalityType
  <2>8. Cardinality(then) >= Quorum
    <3>1. Cardinality(now) >= Quorum
      BY <2>1
    <3> HIDE DEF now, then
    <3> QED
      BY <2>6, <2>7, <3>1, QuorumAssumption
  <2> QED
    BY <2>8 DEF CarriesOK
<1>2. CASE ~(request.does = "sign" /\ request.done /\ request.outcome = "approve")
  BY <1>2 DEF CarriesOK
<1> QED
  BY <1>1, <1>2

\* A request sits down or gets up beside the others.
LEMMA DeskCarriesOn ==
    ASSUME QuorumInv, NEW q \in Request, NEW next, Sits(q, next), CarriesOK(next)',
           signoffs \subseteq signoffs', \A a \in Application : IsFiniteSet(Approvals(a))'
    PROVE  desk' = [o \in Request |-> desk'[o]] /\ \A o \in Request : CarriesOK(desk[o])'
<1>1. desk' = [o \in Request |-> desk'[o]] /\ desk'[q] = next /\ \A o \in Request \ {q} : desk'[o] = desk[o]
  BY DEF QuorumInv, Sits
<1>2. ASSUME NEW o \in Request \ {q}
      PROVE  CarriesOK(desk[o])'
  <2>1. PICK r : r = desk[o]
    OBVIOUS
  <2>2. CarriesOK(r)
    BY <2>1 DEF QuorumInv
  <2>3. CarriesOK(r)'
    BY <2>2, SignoffsGather
  <2> QED
    BY <1>1, <2>1, <2>3 DEF CarriesOK
<1>3. CarriesOK(desk[q])'
  BY <1>1 DEF CarriesOK
<1> QED
  BY <1>1, <1>2, <1>3

\* A step that leaves the decisions alone: the request it moves, if any, is
\* none of a decision, or carries what it should.
LEMMA DecisionsStay ==
    ASSUME QuorumInv, UNCHANGED signoffs, UNCHANGED opened,
           status' = [a \in Application |-> status'[a]],
           \A a \in Application : status'[a] = "approved" => status[a] = "approved",
           desk' = desk \/ \E q \in Request : \E next : Sits(q, next) /\ CarriesOK(next)
    PROVE  QuorumInv'
<1>1. \A a : Approvals(a)' = Approvals(a)
  BY DEF Approvals
<1>2. \A a \in Application : IsFiniteSet(Approvals(a))'
  BY <1>1 DEF QuorumInv
<1>3. AdmittedByQuorum'
  BY <1>1 DEF QuorumInv, AdmittedByQuorum
<1>4. desk' = [q \in Request |-> desk'[q]] /\ \A q \in Request : CarriesOK(desk[q])'
  <2>1. CASE desk' = desk
    BY <1>1, <2>1 DEF QuorumInv, CarriesOK
  <2>2. CASE \E q \in Request : \E next : Sits(q, next) /\ CarriesOK(next)
    <3>1. PICK q \in Request : \E next : Sits(q, next) /\ CarriesOK(next)
      BY <2>2
    <3>2. PICK next : Sits(q, next) /\ CarriesOK(next)
      BY <3>1
    <3>3. CarriesOK(next)'
      BY <1>2, <3>2, SignoffsGather
    <3> QED
      BY <1>2, <3>2, <3>3, DeskCarriesOn
  <2> QED
    BY <2>1, <2>2
<1> QED
  BY <1>2, <1>3, <1>4 DEF QuorumInv

\* A request of the till, of the papers, or of none, carries nothing of a
\* decision.
AtTheTill == {"nothing", "record", "refund", "settle", "abandon", "void", "voids", "transfer", "close"}
Aside == AtTheTill \cup {"look", "file", "remove", "delete", "check"}

LEMMA AsideCarriesNothing ==
    ASSUME NEW next, next.does \in Aside
    PROVE  CarriesOK(next)
BY DEF Aside, AtTheTill, CarriesOK

\* A step after which one request at most does something else, one of these.
TurnsTo(kinds) == desk' = desk \/ \E q \in Request : \E next : Sits(q, next) /\ next.does \in kinds

\* A step that is of the till or of the papers.
StandsAside == UNCHANGED status /\ TurnsTo(Aside)

LEMMA TillKeepsToItself ==
    ASSUME FeesInv, FeeStep
    PROVE  TurnsTo(AtTheTill) /\ UNCHANGED <<status, opened>>
<1>1. ASSUME UNCHANGED <<status, opened>>,
             desk' = desk \/ \E q \in Request : \E next : Sits(q, next) /\ next.does \in AtTheTill
      PROVE  TurnsTo(AtTheTill) /\ UNCHANGED <<status, opened>>
  BY <1>1 DEF TurnsTo
<1>2. Idle.does \in AtTheTill /\ \A S : Abandoning(S).does \in AtTheTill
  BY DEF Idle, Abandoning, AtTheTill
<1>3. ASSUME NEW q \in Request, NEW a \in Application, NEW o \in Officer, NEW method \in Offered,
             BeginRecord(q, a, o, method)
      PROVE  TurnsTo(AtTheTill) /\ UNCHANGED <<status, opened>>
  <2>1. PICK next : /\ next = [does |-> "record", app |-> a, by |-> o, method |-> method, receipts |-> Fresh(1)]
                    /\ Sits(q, next)
    BY <1>3 DEF BeginRecord
  <2>2. next.does \in AtTheTill
    BY <2>1 DEF AtTheTill
  <2> QED
    BY <1>1, <1>3, <2>1, <2>2 DEF BeginRecord
<1>4. ASSUME NEW q \in Request, NEW r \in Receipt, NEW o \in Officer, NEW method \in Offered,
             NEW lines \in SUBSET Component, BeginRefund(q, r, o, method, lines)
      PROVE  TurnsTo(AtTheTill) /\ UNCHANGED <<status, opened>>
  <2>1. PICK next : /\ next = [does |-> "refund", of |-> r, by |-> o, method |-> method, lines |-> lines,
                               receipts |-> Fresh(1)]
                    /\ Sits(q, next)
    BY <1>4 DEF BeginRefund
  <2>2. next.does \in AtTheTill
    BY <2>1 DEF AtTheTill
  <2> QED
    BY <1>1, <1>4, <2>1, <2>2 DEF BeginRefund
<1>5. ASSUME NEW q \in Request, NEW r \in Receipt, NEW o \in Officer, BeginVoid(q, r, o)
      PROVE  TurnsTo(AtTheTill) /\ UNCHANGED <<status, opened>>
  <2>1. PICK next : next = [does |-> "void", of |-> r] /\ Sits(q, next)
    BY <1>5 DEF BeginVoid
  <2>2. next.does \in AtTheTill
    BY <2>1 DEF AtTheTill
  <2> QED
    BY <1>1, <1>5, <2>1, <2>2 DEF BeginVoid
<1>6. ASSUME NEW q \in Request, NEW a \in Application, NEW o \in Officer, BeginTransfer(q, a, o)
      PROVE  TurnsTo(AtTheTill) /\ UNCHANGED <<status, opened>>
  <2>1. PICK next : next = [does |-> "transfer", app |-> a, by |-> o] /\ Sits(q, next)
    BY <1>6 DEF BeginTransfer
  <2>2. next.does \in AtTheTill
    BY <2>1 DEF AtTheTill
  <2> QED
    BY <1>1, <1>6, <2>1, <2>2 DEF BeginTransfer
<1>7. ASSUME NEW q \in Request, NEW x \in FeeTransfer, NEW o \in Officer, BeginSettle(q, x, o)
      PROVE  TurnsTo(AtTheTill) /\ UNCHANGED <<status, opened>>
  <2>1. PICK next : next = [does |-> "settle", x |-> x, receipts |-> Fresh(2)] /\ Sits(q, next)
    BY <1>7 DEF BeginSettle
  <2>2. next.does \in AtTheTill
    BY <2>1 DEF AtTheTill
  <2> QED
    BY <1>1, <1>7, <2>1, <2>2 DEF BeginSettle
<1>8. ASSUME NEW q \in Request, NEW d \in Drawer, BeginClose(q, d)
      PROVE  TurnsTo(AtTheTill) /\ UNCHANGED <<status, opened>>
  <2>1. PICK next : next = [does |-> "close", d |-> d, expected |-> Figure(d)] /\ Sits(q, next)
    BY <1>8 DEF BeginClose
  <2>2. next.does \in AtTheTill
    BY <2>1 DEF AtTheTill
  <2> QED
    BY <1>1, <1>8, <2>1, <2>2 DEF BeginClose
<1>9. ASSUME NEW q \in Request, ReadVoid(q)
       PROVE  TurnsTo(AtTheTill) /\ UNCHANGED <<status, opened>>
  <2>1. PICK next : next = [desk[q] EXCEPT !.does = "voids"] /\ Sits(q, next)
    BY <1>9 DEF ReadVoid
  <2>2. desk[q] = [does |-> "void", of |-> desk[q].of]
    BY <1>9 DEF ReadVoid, FeesInv, DeskOK, RequestOK
  <2>3. next.does \in AtTheTill
    BY <2>1, <2>2 DEF AtTheTill
  <2> QED
    BY <1>1, <1>9, <2>1, <2>3 DEF ReadVoid
<1>10. ASSUME NEW q \in Request,
              \/ CommitRecord(q) \/ CommitRefund(q) \/ CommitSettle(q)
              \/ CommitVoid(q) \/ CommitTransfer(q) \/ CommitClose(q)
              \/ Abandons(q) \/ Fails(q) \/ Die(q)
       PROVE  TurnsTo(AtTheTill) /\ UNCHANGED <<status, opened>>
  <2>1. \E next : Sits(q, next) /\ next.does \in AtTheTill
    BY <1>2, <1>10 DEF CommitRecord, CommitRefund, CommitSettle, Answers, CommitVoid, CommitTransfer,
                       CommitClose, Abandons, Fails, Die, Dies
  <2>2. UNCHANGED <<status, opened>>
    BY <1>10 DEF CommitRecord, CommitRefund, CommitSettle, CommitVoid, CommitTransfer, CommitClose,
                 Abandons, Fails, Die
  <2> QED
    BY <1>1, <2>1, <2>2
<1>11. ASSUME \/ \E x \in FeeTransfer, to \in Live \cup {"rejected"} : Review(x, to)
              \/ \E x \in FeeTransfer : Cancel(x) \/ Reverse(x)
              \/ \E o \in Officer, d \in Drawer : Open(o, d)
       PROVE  TurnsTo(AtTheTill) /\ UNCHANGED <<status, opened>>
  BY <1>1, <1>11 DEF Review, Cancel, Reverse, Open
<1> QED
  BY <1>3, <1>4, <1>5, <1>6, <1>7, <1>8, <1>9, <1>10, <1>11 DEF FeeStep

LEMMA TillStandsAside ==
    ASSUME FeesInv, FeeStep
    PROVE  StandsAside /\ UNCHANGED opened
BY TillKeepsToItself DEF StandsAside, TurnsTo, Aside

LEMMA TillLeavesDecisions ==
    ASSUME FeesInv, QuorumInv, FeeStep, UNCHANGED flow
    PROVE  QuorumInv'
<1>1. StandsAside /\ UNCHANGED opened
  BY TillStandsAside
<1>2. UNCHANGED signoffs /\ status = [a \in Application |-> status[a]]
  BY DEF flow, QuorumInv
<1> QED
  BY <1>1, <1>2, AsideCarriesNothing, DecisionsStay DEF StandsAside, TurnsTo

LEMMA PapersStandAside ==
    ASSUME FeesInv, PaperStep
    PROVE  StandsAside
<1>1. ASSUME UNCHANGED status,
             desk' = desk \/ \E q \in Request : \E next : Sits(q, next) /\ next.does \in Aside
      PROVE  StandsAside
  BY <1>1 DEF StandsAside, TurnsTo
<1>2. Idle.does \in Aside
  BY DEF Idle, Aside, AtTheTill
<1>3. \A q \in Request : RequestOK(desk[q])
  BY DEF FeesInv, DeskOK
<1>4. ASSUME NEW q \in Request, NEW v \in Version, BeginCommit(q, v)
      PROVE  StandsAside
  <2>1. PICK next : next = [does |-> "look", v |-> v, by |-> version[v].by] /\ Sits(q, next)
    BY <1>4 DEF BeginCommit
  <2>2. next.does \in Aside
    BY <2>1 DEF Aside, AtTheTill
  <2> QED
    BY <1>1, <1>4, <2>1, <2>2 DEF BeginCommit
<1>5. ASSUME NEW q \in Request, Look(q)
      PROVE  StandsAside
  <2>1. desk[q] = [does |-> "look", v |-> desk[q].v, by |-> desk[q].by]
    BY <1>3, <1>5 DEF RequestOK, Look
  <2>2. PICK next : next = [desk[q] EXCEPT !.does = "file"]
    OBVIOUS
  <2>3. next.does \in Aside
    BY <2>1, <2>2 DEF Aside, AtTheTill
  <2>4. Sits(q, next) \/ Sits(q, Idle)
    BY <1>5, <2>2 DEF Look
  <2> QED
    BY <1>1, <1>2, <1>5, <2>3, <2>4 DEF Look
<1>6. ASSUME NEW q \in Request, CommitRemove(q)
      PROVE  StandsAside
  <2>1. desk[q] = [does |-> "remove", v |-> desk[q].v, by |-> desk[q].by]
    BY <1>3, <1>6 DEF RequestOK, CommitRemove
  <2>2. PICK next : next = [desk[q] EXCEPT !.does = "delete"] /\ Sits(q, next)
    BY <1>6 DEF CommitRemove
  <2>3. next.does \in Aside
    BY <2>1, <2>2 DEF Aside, AtTheTill
  <2> QED
    BY <1>1, <1>6, <2>2, <2>3 DEF CommitRemove
<1>7. ASSUME NEW q \in Request, CommitUpload(q) \/ DeleteFile(q) \/ CommitCheck(q)
      PROVE  StandsAside
  BY <1>1, <1>2, <1>7 DEF CommitUpload, DeleteFile, CommitCheck
<1>8. ASSUME NEW q \in Request, NEW d \in Document, NEW o \in Officer, BeginRemove(q, d, o)
      PROVE  StandsAside
  <2>1. PICK v \in LiveFilings(d) : Sits(q, [does |-> "remove", v |-> v, by |-> o])
    BY <1>8 DEF BeginRemove
  <2>2. PICK next : next = [does |-> "remove", v |-> v, by |-> o] /\ Sits(q, next)
    BY <2>1
  <2>3. next.does \in Aside
    BY <2>2 DEF Aside, AtTheTill
  <2> QED
    BY <1>1, <1>8, <2>2, <2>3 DEF BeginRemove
<1>9. ASSUME NEW q \in Request, NEW d \in Document, NEW o \in Officer, NEW verdict \in {"verified", "rejected"},
              BeginCheck(q, d, o, verdict)
       PROVE  StandsAside
  <2>1. PICK next : next = [does |-> "check", doc |-> d, by |-> o, verdict |-> verdict] /\ Sits(q, next)
    BY <1>9 DEF BeginCheck
  <2>2. next.does \in Aside
    BY <2>1 DEF Aside, AtTheTill
  <2> QED
    BY <1>1, <1>9, <2>1, <2>2 DEF BeginCheck
<1>10. ASSUME \/ \E v \in Version, d \in Document, o \in Officer : BeginUpload(v, d, o)
              \/ \E v \in Version : Arrives(v)
              \/ \E d \in Document : Expire(d)
       PROVE  StandsAside
  BY <1>1, <1>10 DEF BeginUpload, Arrives, Expire
<1> QED
  BY <1>4, <1>5, <1>6, <1>7, <1>8, <1>9, <1>10 DEF PaperStep

LEMMA PapersLeaveDecisions ==
    ASSUME FeesInv, QuorumInv, PaperStep, UNCHANGED <<opened, flow>>
    PROVE  QuorumInv'
<1>1. StandsAside
  BY PapersStandAside
<1>2. UNCHANGED <<signoffs, opened>> /\ status = [a \in Application |-> status[a]]
  BY DEF flow, QuorumInv
<1> QED
  BY <1>1, <1>2, AsideCarriesNothing, DecisionsStay DEF StandsAside, TurnsTo

\* A sign-off written: what it counted is there, its own with it.
LEMMA SigningKeeps ==
    ASSUME QuorumInv, NEW q \in Request, Signs(q), NEW a \in Application, a = desk[q].app,
           status' = [b \in Application |-> status'[b]],
           opened' = opened \/ (opened' = opened \cup {a} /\ desk[q].done /\ desk[q].outcome = "approve"),
           \A b \in Application : status'[b] = "approved" => status[b] = "approved" \/ b \in opened'
    PROVE  QuorumInv'
<1>1. desk[q].does = "sign" /\ desk[q].by \in Officer /\ desk[q].app \in Application /\ CarriesOK(desk[q])
  BY DEF Signs, QuorumInv, CarriesOK
<1>2. signoffs' = signoffs \cup {<<desk[q].by, desk[q].outcome, a>>}
  BY DEF Signs
<1>3. \A b : Approvals(b) \subseteq Approvals(b)' /\ Approvals(b)' \subseteq Approvals(b) \cup {desk[q].by}
  BY <1>2 DEF Approvals
<1>4. \A b \in Application : IsFiniteSet(Approvals(b)) /\ IsFiniteSet(Approvals(b))'
  <2> SUFFICES ASSUME NEW b \in Application
               PROVE  IsFiniteSet(Approvals(b)) /\ IsFiniteSet(Approvals(b)')
    OBVIOUS
  <2>1. IsFiniteSet(Approvals(b))
    BY DEF QuorumInv
  <2>2. IsFiniteSet(Approvals(b) \cup {desk[q].by})
    BY <2>1, FS_AddElement
  <2>3. Approvals(b)' \in SUBSET (Approvals(b) \cup {desk[q].by})
    BY <1>3
  <2> QED
    BY <2>1, <2>2, <2>3, FS_Subset
<1>5. \A b \in opened : Cardinality(Approvals(b)') >= Quorum
  <2> SUFFICES ASSUME NEW b \in opened
               PROVE  Cardinality(Approvals(b)') >= Quorum
    OBVIOUS
  <2>1. b \in Application /\ Cardinality(Approvals(b)) >= Quorum
    BY DEF QuorumInv, AdmittedByQuorum
  <2>2. IsFiniteSet(Approvals(b)) /\ IsFiniteSet(Approvals(b)') /\ Approvals(b) \in SUBSET (Approvals(b)')
    BY <1>3, <1>4, <2>1
  <2>3. Cardinality(Approvals(b)) <= Cardinality(Approvals(b)')
    BY <2>2, FS_Subset
  <2>4. Cardinality(Approvals(b)) \in Nat /\ Cardinality(Approvals(b)') \in Nat
    BY <2>2, FS_CardinalityType
  <2> QED
    BY <2>1, <2>3, <2>4, QuorumAssumption
<1>6. desk[q].done /\ desk[q].outcome = "approve" => Cardinality(Approvals(a)') >= Quorum
  <2> SUFFICES ASSUME desk[q].done, desk[q].outcome = "approve"
               PROVE  Cardinality(Approvals(a)') >= Quorum
    OBVIOUS
  <2>1. Approvals(a)' = Approvals(a) \cup {desk[q].by}
    BY <1>1, <1>2 DEF Approvals
  <2> QED
    BY <1>1, <2>1 DEF CarriesOK
<1>7. AdmittedByQuorum'
  <2>1. \A b \in opened' : Cardinality(Approvals(b)') >= Quorum
    BY <1>5, <1>6
  <2>2. \A b \in Application : status'[b] = "approved" => b \in opened'
    BY DEF QuorumInv, AdmittedByQuorum
  <2> QED
    BY <2>1, <2>2 DEF AdmittedByQuorum
<1>8. opened' \subseteq Application
  BY DEF QuorumInv
<1>9. CarriesOK(Idle)'
  BY DEF CarriesOK, Idle
<1>10. Sits(q, Idle) /\ signoffs \subseteq signoffs'
  BY <1>2 DEF Signs
<1>11. desk' = [o \in Request |-> desk'[o]] /\ \A o \in Request : CarriesOK(desk[o])'
  BY <1>4, <1>9, <1>10, DeskCarriesOn
<1> QED
  BY <1>4, <1>7, <1>8, <1>11 DEF QuorumInv

LEMMA FlowKeepsQuorum ==
    ASSUME QuorumInv, FlowStep
    PROVE  QuorumInv'
<1>1. ASSUME UNCHANGED <<status, signoffs, opened>>,
             desk' = desk \/ \E q \in Request : \E next : Sits(q, next) /\ CarriesOK(next)
      PROVE  QuorumInv'
  BY <1>1, DecisionsStay DEF QuorumInv
<1>2. CarriesOK(Idle) /\ \A q \in Request : CarriesOK(desk[q])
  BY DEF CarriesOK, Idle, QuorumInv
<1>3. ASSUME NEW q \in Request, NEW a \in Application, NEW o \in Officer, BeginSubmit(q, a, o)
      PROVE  QuorumInv'
  <2>1. PICK next : /\ next = [does |-> "submit", app |-> a, by |-> o, to |-> ToStatus("capture"),
                               oversight |-> Oversight(o, a)]
                    /\ Sits(q, next)
    BY <1>3 DEF BeginSubmit
  <2>2. CarriesOK(next)
    BY <2>1, OnlyTheBoardApproves DEF CarriesOK
  <2> QED
    BY <1>1, <1>3, <2>1, <2>2 DEF BeginSubmit, flow
<1>4. ASSUME NEW q \in Request, NEW a \in Application, NEW o \in Officer, BeginReopen(q, a, o)
      PROVE  QuorumInv'
  <2>1. PICK next : next = [does |-> "reopen", app |-> a] /\ Sits(q, next)
    BY <1>4 DEF BeginReopen
  <2>2. CarriesOK(next)
    BY <2>1 DEF CarriesOK
  <2> QED
    BY <1>1, <1>4, <2>1, <2>2 DEF BeginReopen, flow
<1>5. ASSUME NEW q \in Request, NEW a \in Application, NEW o \in Officer, NEW outcome \in {"approve", "reject"},
             BeginDecide(q, a, o, outcome)
      PROVE  QuorumInv'
  <2>1. PICK next : /\ next = [does |-> "decide", app |-> a, by |-> o, outcome |-> outcome,
                               to |-> ToStatus("president_decision")]
                    /\ Sits(q, next)
    BY <1>5 DEF BeginDecide
  <2>2. CarriesOK(next)
    BY <2>1 DEF CarriesOK
  <2> QED
    BY <1>1, <1>5, <2>1, <2>2 DEF BeginDecide, flow
<1>6. ASSUME NEW q \in Request, NEW a \in Application, NEW o \in Officer, NEW s \in Step, NEW forward \in BOOLEAN,
             BeginReview(q, a, o, s, forward)
      PROVE  QuorumInv'
  <2>1. PICK next : /\ next = [does |-> "review", app |-> a, by |-> o, step |-> s,
                               to |-> IF forward THEN ToStatus(s) ELSE "returned"]
                    /\ Sits(q, next)
    BY <1>6 DEF BeginReview
  <2>2. s \in {"regional_review", "secretary_review"}
    BY <1>6 DEF BeginReview
  <2>3. CarriesOK(next)
    BY <2>1, <2>2, OnlyTheBoardApproves DEF CarriesOK
  <2> QED
    BY <1>1, <1>6, <2>1, <2>3 DEF BeginReview, flow
<1>7. ASSUME NEW q \in Request, Count(q)
      PROVE  QuorumInv'
  <2>1. PICK next : /\ next = [does |-> "sign", app |-> desk[q].app, by |-> desk[q].by,
                               outcome |-> desk[q].outcome, to |-> desk[q].to,
                               done |-> desk[q].outcome = "reject" \/ Enough(q)]
                    /\ Sits(q, next)
    BY <1>7 DEF Count
  <2>2. desk[q].app \in Application /\ desk[q].by \in Officer
    BY <1>2, <1>7 DEF Count, CarriesOK
  <2>3. CarriesOK(next)
    BY <2>1, <2>2 DEF CarriesOK, Enough
  <2> QED
    BY <1>1, <1>7, <2>1, <2>3 DEF Count, flow
<1>8. ASSUME NEW q \in Request, CommitSubmit(q) \/ CommitReview(q) \/ CommitReopen(q)
      PROVE  QuorumInv'
  <2>1. /\ UNCHANGED <<signoffs, opened>> /\ Sits(q, Idle)
        /\ \E to : status' = [status EXCEPT ![desk[q].app] = to] /\ to # "approved"
    BY <1>2, <1>8 DEF CommitSubmit, CommitReview, CommitReopen, flow, CarriesOK
  <2>2. /\ status' = [b \in Application |-> status'[b]]
        /\ \A b \in Application : status'[b] = "approved" => status[b] = "approved"
    BY <2>1 DEF QuorumInv
  <2> QED
    BY <1>2, <2>1, <2>2, DecisionsStay
<1>9. ASSUME NEW q \in Request, CommitSignoff(q) \/ CommitReject(q) \/ CommitApprove(q)
      PROVE  QuorumInv'
  <2>1. Signs(q)
    BY <1>9 DEF CommitSignoff, CommitReject, CommitApprove
  <2>2. PICK a \in Application : a = desk[q].app
    BY <1>2, <2>1 DEF Signs, CarriesOK
  <2>3. status = [b \in Application |-> status[b]]
    BY DEF QuorumInv
  <2>4. CASE CommitSignoff(q)
    BY <2>1, <2>2, <2>3, <2>4, SigningKeeps DEF CommitSignoff
  <2>5. CASE CommitReject(q)
    <3>1. /\ status' = [b \in Application |-> status'[b]]
          /\ \A b \in Application : status'[b] = "approved" => status[b] = "approved"
      BY <2>2, <2>3, <2>5 DEF CommitReject, Settles
    <3> QED
      BY <2>1, <2>2, <2>5, <3>1, SigningKeeps DEF CommitReject
  <2>6. CASE CommitApprove(q)
    <3>1. /\ status' = [b \in Application |-> status'[b]] /\ opened' = opened \cup {a}
          /\ \A b \in Application : status'[b] = "approved" => status[b] = "approved" \/ b \in opened'
      BY <2>2, <2>3, <2>6 DEF CommitApprove, Settles
    <3> QED
      BY <2>1, <2>2, <2>6, <3>1, SigningKeeps DEF CommitApprove
  <2> QED
    BY <1>9, <2>4, <2>5, <2>6
<1>10. ASSUME NEW s \in Step, Switch(s)
       PROVE  QuorumInv'
  BY <1>1, <1>10 DEF Switch
<1> QED
  BY <1>3, <1>4, <1>5, <1>6, <1>7, <1>8, <1>9, <1>10 DEF FlowStep

\* The invariant of the decisions, of every reachable state.
LEMMA QuorumKept == Spec => []QuorumInv
<1>1. Init => QuorumInv
  <2> SUFFICES ASSUME Init
               PROVE  QuorumInv
    OBVIOUS
  <2>1. \A a : Approvals(a) = {}
    BY DEF Init, Approvals
  <2>2. \A a \in Application : IsFiniteSet(Approvals(a))
    BY <2>1, FS_EmptySet
  <2>3. CarriesOK(Idle)
    BY DEF CarriesOK, Idle
  <2> QED
    BY <2>2, <2>3 DEF Init, EmptyTill, QuorumInv, AdmittedByQuorum
<1>2. FeesInv /\ QuorumInv /\ [Next]_vars => QuorumInv'
  <2> SUFFICES ASSUME FeesInv, QuorumInv, [Next]_vars
               PROVE  QuorumInv'
    OBVIOUS
  <2>1. CASE FeeStep /\ UNCHANGED <<papers, flow>>
    BY <2>1, TillLeavesDecisions
  <2>2. CASE PaperStep /\ UNCHANGED <<opened, money, flow>>
    BY <2>2, PapersLeaveDecisions
  <2>3. CASE FlowStep
    BY <2>3, FlowKeepsQuorum
  <2>4. CASE UNCHANGED vars
    BY <2>4, DecisionsStay DEF vars, flow, QuorumInv
  <2> QED
    BY <2>1, <2>2, <2>3, <2>4 DEF Next
<1> QED
  BY <1>1, <1>2, TillUnderWorkflow, PTL DEF Spec

\* A member is made by as many distinct people as the quorum asks for, for any
\* number of officers, requests and passes: whatever a stale request writes,
\* only a decision that counted enough makes an application read approved.
THEOREM QuorumHolds == Spec => []AdmittedByQuorum
<1>1. QuorumInv => AdmittedByQuorum
  BY DEF QuorumInv
<1> QED
  BY <1>1, QuorumKept, PTL

----------------------------------------------------------------------------
(* Who is kept from what                                                   *)

\* What a request's commit is audited as.
Audited(request) == IF request.does = "review" THEN DidAt[request.step] ELSE "approved"

\* A submission writes down who captured and who oversaw, and nobody else; who
\* reviews or decides is neither the captor, who is written down, nor anybody
\* the rules keep from it, as the trail reads now.
ApartOK(request) ==
    /\ request.does \in {"submit", "review", "decide", "sign"} => "by" \in DOMAIN request
    /\ request.does = "submit" => request.oversight \subseteq {request.by, CapturedBy[request.app]}
    /\ request.does = "review" => request.step \in {"regional_review", "secretary_review"}
    /\ request.does \in {"review", "decide", "sign"} =>
         /\ DidTo(CapturedBy[request.app], "captured", request.app) /\ request.by # CapturedBy[request.app]
         /\ KeptApart(request.by, Audited(request), request.app)

\* What is with the Secretary or the Board has its captor on the trail.
CaptorsKnown ==
    \A a \in Application :
        status[a] \in {"new", "submitted_for_approval"} => DidTo(CapturedBy[a], "captured", a)

ApartInv ==
    /\ "capture" \in enabled
    /\ CaptorsKnown
    /\ \A q \in Request : ApartOK(desk[q])

\* A record does not stand before its capture while capture is a step.
LEMMA WhereRecordsStand ==
    ASSUME "capture" \in enabled, NEW s \in {"regional_review", "secretary_review", "president_decision"}
    PROVE  FromStatus(s) \in {"new", "submitted_for_approval"}
<1>1. DOMAIN Stage = 1..4 /\ Stage[2] = "new" /\ Stage[3] = "submitted_for_approval"
  BY DEF Stage
<1>2. Moves[1] = "capture" /\ Moves[2] = "secretary_review" /\ Moves[3] = "president_decision" /\ DOMAIN Moves = 1..3
  BY DEF Moves
<1>3. \E where : where = [i \in DOMAIN Stage |->
                            IF i = 1 THEN 1 ELSE IF Moves[i - 1] \in enabled THEN i ELSE where[i - 1]]
  <2>1. PICK second : second = IF Moves[1] \in enabled THEN 2 ELSE 1
    OBVIOUS
  <2>2. PICK third : third = IF Moves[2] \in enabled THEN 3 ELSE second
    OBVIOUS
  <2>3. PICK fourth : fourth = IF Moves[3] \in enabled THEN 4 ELSE third
    OBVIOUS
  <2>4. PICK where : where = [i \in 1..4 |-> IF i = 1 THEN 1 ELSE IF i = 2 THEN second
                                             ELSE IF i = 3 THEN third ELSE fourth]
    OBVIOUS
  <2>5. where[1] = 1 /\ where[2] = second /\ where[3] = third /\ where[4] = fourth
    BY <2>4
  <2>6. \A i \in 1..4 : where[i] = IF i = 1 THEN 1 ELSE IF Moves[i - 1] \in enabled THEN i ELSE where[i - 1]
    <3>1. \A i \in 1..4 : i = 1 \/ i = 2 \/ i = 3 \/ i = 4
      OBVIOUS
    <3>2. 2 - 1 = 1 /\ 3 - 1 = 2 /\ 4 - 1 = 3
      OBVIOUS
    <3> QED
      BY <2>1, <2>2, <2>3, <2>5, <3>1, <3>2
  <2>7. where = [i \in DOMAIN Stage |->
                   IF i = 1 THEN 1 ELSE IF Moves[i - 1] \in enabled THEN i ELSE where[i - 1]]
    BY <2>4, <2>6, <1>1
  <2> QED
    BY <2>7
<1>4. Stands = [i \in DOMAIN Stage |->
                  IF i = 1 THEN 1 ELSE IF Moves[i - 1] \in enabled THEN i ELSE Stands[i - 1]]
  BY <1>3 DEF Stands
<1>5. Stands[2] = 2 /\ Stands[3] \in {2, 3}
  <2>1. \A i \in 1..4 : Stands[i] = IF i = 1 THEN 1 ELSE IF Moves[i - 1] \in enabled THEN i ELSE Stands[i - 1]
    BY <1>1, <1>4
  <2>2. Stands[2] = 2
    BY <2>1, <1>2
  <2>3. Stands[3] = IF Moves[2] \in enabled THEN 3 ELSE Stands[2]
    BY <2>1
  <2> QED
    BY <2>2, <2>3
<1>6. Place("regional_review") = 2 /\ Place("secretary_review") = 2 /\ Place("president_decision") = 3
  <2>1. (CHOOSE i \in DOMAIN Moves : Moves[i] = "secretary_review") = 2
    BY <1>2
  <2>2. (CHOOSE i \in DOMAIN Moves : Moves[i] = "president_decision") = 3
    BY <1>2
  <2> QED
    BY <2>1, <2>2 DEF Place, Gate
<1> QED
  BY <1>1, <1>5, <1>6 DEF FromStatus

\* Whoever may review or decide is kept apart, and is not the captor.
LEMMA WhoMayAct ==
    ASSUME ApartInv, NEW a \in Application, NEW o \in Officer,
           NEW s \in {"regional_review", "secretary_review", "president_decision"}, MayAct(o, s, a)
    PROVE  /\ DidTo(CapturedBy[a], "captured", a) /\ o # CapturedBy[a]
           /\ KeptApart(o, DidAt[s], a)
<1>1. status[a] \in {"new", "submitted_for_approval"}
  BY WhereRecordsStand DEF MayAct, ApartInv
<1>2. DidTo(CapturedBy[a], "captured", a)
  BY <1>1 DEF ApartInv, CaptorsKnown
<1>3. KeptApart(o, DidAt[s], a)
  BY DEF MayAct
<1>4. <<"captured", DidAt[s]>> \in Rules
  BY DEF Rules, DidAt
<1>5. ~DidTo(o, "captured", a)
  BY <1>3, <1>4 DEF KeptApart
<1> QED
  BY <1>2, <1>3, <1>5

\* A request stays as it should be if nothing is written of whom it is by.
LEMMA ApartStays ==
    ASSUME NEW request, ApartOK(request), trail \subseteq trail',
           request.does \in {"review", "decide", "sign"} =>
               \A did : <<request.by, did, request.app>> \in trail' => <<request.by, did, request.app>> \in trail
    PROVE  ApartOK(request)'
  BY DEF ApartOK, DidTo, KeptApart, Audited

\* A step that writes nothing on the trail; the request it moves, if any, is
\* as it should be.
LEMMA NobodyWrites ==
    ASSUME ApartInv, desk = [q \in Request |-> desk[q]], UNCHANGED trail, "capture" \in enabled',
           \A a \in Application : status'[a] \in {"new", "submitted_for_approval"} => status'[a] = status[a],
           desk' = desk \/ \E q \in Request : \E next : Sits(q, next) /\ ApartOK(next)
    PROVE  ApartInv'
<1>1. CaptorsKnown'
  BY DEF ApartInv, CaptorsKnown, DidTo
<1>2. \A request : ApartOK(request) => ApartOK(request)'
  BY DEF ApartOK, DidTo, KeptApart, Audited
<1>3. \A q \in Request : ApartOK(desk'[q])
  <2>1. CASE desk' = desk
    BY <2>1 DEF ApartInv
  <2>2. ASSUME NEW q \in Request, NEW next, Sits(q, next), ApartOK(next)
        PROVE  \A o \in Request : ApartOK(desk'[o])
    <3>1. desk'[q] = next /\ \A o \in Request \ {q} : desk'[o] = desk[o]
      BY <2>2 DEF Sits
    <3> QED
      BY <2>2, <3>1 DEF ApartInv
  <2> QED
    BY <2>1, <2>2
<1>4. \A q \in Request : ApartOK(desk[q])'
  <2> SUFFICES ASSUME NEW q \in Request PROVE ApartOK(desk[q])'
    OBVIOUS
  <2>1. PICK request : request = desk'[q] /\ ApartOK(request)
    BY <1>3
  <2>2. ApartOK(request)'
    BY <1>2, <2>1
  <2> QED
    BY <2>1, <2>2 DEF ApartOK
<1> QED
  BY <1>1, <1>4 DEF ApartInv

LEMMA AsideIsApart ==
    ASSUME NEW next, next.does \in Aside
    PROVE  ApartOK(next)
  BY DEF Aside, AtTheTill, ApartOK

\* A commit that writes on the trail, of its own officer and of the captor.
LEMMA SomebodyWrites ==
    ASSUME ApartInv, OneAtATime, desk = [q \in Request |-> desk[q]], UNCHANGED enabled,
           NEW q \in Request, desk[q].does \in {"submit", "review", "decide", "sign"}, Sits(q, Idle),
           trail \subseteq trail',
           \A o, did, a : <<o, did, a>> \in trail' =>
               <<o, did, a>> \in trail \/ (a = desk[q].app /\ o \in {desk[q].by, CapturedBy[desk[q].app]}),
           \A a \in Application : status'[a] = status[a] \/ a = desk[q].app,
           <<CapturedBy[desk[q].app], "captured", desk[q].app>> \in trail'
    PROVE  ApartInv'
<1>1. CaptorsKnown'
  BY DEF ApartInv, CaptorsKnown, DidTo
<1>2. desk'[q] = Idle /\ \A p \in Request \ {q} : desk'[p] = desk[p]
  BY DEF Sits
<1>3. ASSUME NEW p \in Request \ {q}
      PROVE  ApartOK(desk[p])'
  <2>1. PICK request : request = desk[p]
    OBVIOUS
  <2>2. ApartOK(request)
    BY <2>1 DEF ApartInv
  <2>3. request.does \in {"review", "decide", "sign"} =>
            request.by # desk[q].by /\ request.by # CapturedBy[request.app]
    <3>1. "by" \in DOMAIN desk[q]
      BY DEF ApartInv, ApartOK
    <3> QED
      BY <2>1, <2>2, <3>1 DEF OneAtATime, ApartOK
  <2>4. ApartOK(request)'
    BY <2>2, <2>3, ApartStays
  <2> QED
    BY <1>2, <2>1, <2>4 DEF ApartOK
<1>4. ApartOK(desk[q])'
  <2>1. ApartOK(Idle)'
    BY DEF Idle, ApartOK
  <2> QED
    BY <1>2, <2>1 DEF ApartOK
<1> QED
  BY <1>1, <1>3, <1>4 DEF ApartInv

LEMMA FlowKeepsApart ==
    ASSUME QuorumInv, ApartInv, OneAtATime, "capture" \notin Switched, FlowStep
    PROVE  ApartInv'
<1>1. ASSUME UNCHANGED <<status, trail, enabled>>,
             desk' = desk \/ \E q \in Request : \E next : Sits(q, next) /\ ApartOK(next)
      PROVE  ApartInv'
  BY <1>1, NobodyWrites DEF QuorumInv, ApartInv
<1>2. ApartOK(Idle) /\ \A q \in Request : ApartOK(desk[q]) /\ CarriesOK(desk[q])
  BY DEF ApartOK, Idle, ApartInv, QuorumInv
<1>3. ASSUME NEW q \in Request, NEW a \in Application, NEW o \in Officer, BeginSubmit(q, a, o)
      PROVE  ApartInv'
  <2>1. PICK next : /\ next = [does |-> "submit", app |-> a, by |-> o, to |-> ToStatus("capture"),
                               oversight |-> Oversight(o, a)]
                    /\ Sits(q, next)
    BY <1>3 DEF BeginSubmit
  <2>2. Oversight(o, a) \subseteq {o, CapturedBy[a]}
    BY DEF Oversight
  <2>3. ApartOK(next)
    BY <2>1, <2>2 DEF ApartOK
  <2> QED
    BY <1>1, <1>3, <2>1, <2>3 DEF BeginSubmit, flow
<1>4. ASSUME NEW q \in Request, NEW a \in Application, NEW o \in Officer, BeginReopen(q, a, o)
      PROVE  ApartInv'
  <2>1. PICK next : next = [does |-> "reopen", app |-> a] /\ Sits(q, next)
    BY <1>4 DEF BeginReopen
  <2>2. ApartOK(next)
    BY <2>1 DEF ApartOK
  <2> QED
    BY <1>1, <1>4, <2>1, <2>2 DEF BeginReopen, flow
<1>5. ASSUME NEW q \in Request, NEW a \in Application, NEW o \in Officer, NEW outcome \in {"approve", "reject"},
             BeginDecide(q, a, o, outcome)
      PROVE  ApartInv'
  <2>1. PICK next : /\ next = [does |-> "decide", app |-> a, by |-> o, outcome |-> outcome,
                               to |-> ToStatus("president_decision")]
                    /\ Sits(q, next)
    BY <1>5 DEF BeginDecide
  <2>2. /\ DidTo(CapturedBy[a], "captured", a) /\ o # CapturedBy[a]
        /\ KeptApart(o, "approved", a)
    BY <1>5, WhoMayAct DEF BeginDecide, DidAt
  <2>3. ApartOK(next)
    BY <2>1, <2>2 DEF ApartOK, Audited
  <2> QED
    BY <1>1, <1>5, <2>1, <2>3 DEF BeginDecide, flow
<1>6. ASSUME NEW q \in Request, NEW a \in Application, NEW o \in Officer, NEW s \in Step, NEW forward \in BOOLEAN,
             BeginReview(q, a, o, s, forward)
      PROVE  ApartInv'
  <2>1. PICK next : /\ next = [does |-> "review", app |-> a, by |-> o, step |-> s,
                               to |-> IF forward THEN ToStatus(s) ELSE "returned"]
                    /\ Sits(q, next)
    BY <1>6 DEF BeginReview
  <2>2. s \in {"regional_review", "secretary_review"}
    BY <1>6 DEF BeginReview
  <2>3. /\ DidTo(CapturedBy[a], "captured", a) /\ o # CapturedBy[a]
        /\ KeptApart(o, DidAt[s], a)
    BY <1>6, <2>2, WhoMayAct DEF BeginReview
  <2>4. ApartOK(next)
    BY <2>1, <2>2, <2>3 DEF ApartOK, Audited
  <2> QED
    BY <1>1, <1>6, <2>1, <2>4 DEF BeginReview, flow
<1>7. ASSUME NEW q \in Request, Count(q)
      PROVE  ApartInv'
  <2>1. PICK next : /\ next = [does |-> "sign", app |-> desk[q].app, by |-> desk[q].by,
                               outcome |-> desk[q].outcome, to |-> desk[q].to,
                               done |-> desk[q].outcome = "reject" \/ Enough(q)]
                    /\ Sits(q, next)
    BY <1>7 DEF Count
  <2>2. PICK request : request = desk[q] /\ ApartOK(request) /\ request.does = "decide"
    BY <1>2, <1>7 DEF Count
  <2>3. next.does = "sign" /\ next.app = request.app /\ next.by = request.by /\ "by" \in DOMAIN next
    BY <2>1, <2>2
  <2>4. ApartOK(next)
    BY <2>2, <2>3 DEF ApartOK, Audited
  <2> QED
    BY <1>1, <1>7, <2>1, <2>4 DEF Count, flow
<1>8. ASSUME NEW q \in Request, CommitReopen(q)
      PROVE  ApartInv'
  <2>1. \A a \in Application : status'[a] \in {"new", "submitted_for_approval"} => status'[a] = status[a]
    BY <1>8 DEF CommitReopen, QuorumInv
  <2>2. UNCHANGED <<trail, enabled>> /\ Sits(q, Idle) /\ desk = [p \in Request |-> desk[p]]
    BY <1>8 DEF CommitReopen, flow, QuorumInv
  <2> QED
    BY <1>2, <2>1, <2>2, NobodyWrites DEF ApartInv
<1>9. ASSUME NEW s \in Step, Switch(s)
      PROVE  ApartInv'
  <2>1. UNCHANGED <<status, desk, trail>> /\ "capture" \in enabled' /\ desk = [p \in Request |-> desk[p]]
    BY <1>9 DEF Switch, ApartInv, QuorumInv
  <2> QED
    BY <2>1, NobodyWrites
<1>10. ASSUME NEW q \in Request, CommitSubmit(q)
       PROVE  ApartInv'
  <2>1. PICK a \in Application : a = desk[q].app
    BY <1>2, <1>10 DEF CommitSubmit, CarriesOK
  <2>2. PICK by : by = desk[q].by
    OBVIOUS
  <2>3. PICK oversight : oversight = desk[q].oversight
    OBVIOUS
  <2>4. /\ desk[q].does = "submit" /\ oversight \subseteq {by, CapturedBy[a]}
        /\ trail' = trail \cup {<<o, "captured", a>> : o \in Capturers(by, a)}
                          \cup {<<o, "regional_reviewed", a>> : o \in oversight}
    BY <1>2, <1>10, <2>1, <2>2, <2>3 DEF CommitSubmit, ApartOK
  <2>5. /\ trail \subseteq trail' /\ <<CapturedBy[a], "captured", a>> \in trail'
        /\ \A o, did, b : <<o, did, b>> \in trail' =>
               <<o, did, b>> \in trail \/ (b = a /\ o \in {by, CapturedBy[a]})
    BY <2>4 DEF Capturers
  <2>6. \A b \in Application : status'[b] = status[b] \/ b = a
    BY <1>10, <2>1 DEF CommitSubmit, QuorumInv
  <2>7. UNCHANGED enabled /\ Sits(q, Idle) /\ desk = [p \in Request |-> desk[p]]
    BY <1>10 DEF CommitSubmit, QuorumInv
  <2> QED
    BY <2>1, <2>2, <2>4, <2>5, <2>6, <2>7, SomebodyWrites
<1>11. ASSUME NEW q \in Request, CommitReview(q) \/ CommitSignoff(q) \/ CommitReject(q) \/ CommitApprove(q)
       PROVE  ApartInv'
  <2>1. PICK a : a = desk[q].app
    OBVIOUS
  <2>2. PICK by : by = desk[q].by
    OBVIOUS
  <2>3. PICK did : trail' = trail \cup {<<by, did, a>>}
    BY <1>11, <2>1, <2>2 DEF CommitReview, CommitSignoff, CommitReject, CommitApprove, Signs
  <2>4. desk[q].does \in {"review", "sign"} /\ UNCHANGED enabled /\ Sits(q, Idle)
    BY <1>11 DEF CommitReview, CommitSignoff, CommitReject, CommitApprove, Signs
  <2>5. \A b \in Application : status'[b] = status[b] \/ b = a
    BY <1>11, <2>1 DEF CommitReview, CommitSignoff, CommitReject, CommitApprove, Settles, QuorumInv
  <2>6. DidTo(CapturedBy[a], "captured", a)
    BY <1>2, <2>1, <2>4 DEF ApartOK
  <2>7. /\ trail \subseteq trail' /\ <<CapturedBy[a], "captured", a>> \in trail'
        /\ \A o, d, b : <<o, d, b>> \in trail' =>
               <<o, d, b>> \in trail \/ (b = a /\ o \in {by, CapturedBy[a]})
    BY <2>3, <2>6 DEF DidTo
  <2>8. desk = [p \in Request |-> desk[p]]
    BY DEF QuorumInv
  <2> QED
    BY <2>1, <2>2, <2>4, <2>5, <2>7, <2>8, SomebodyWrites
<1> QED
  BY <1>3, <1>4, <1>5, <1>6, <1>7, <1>8, <1>9, <1>10, <1>11 DEF FlowStep

\* What a commit writes of its officer is nothing the rules keep them from.
LEMMA WritesApart ==
    ASSUME ApartInv, QuorumInv, FlowStep,
           NEW a \in Application, NEW o \in Officer, NEW rule \in Rules, rule[2] \in {"reviewed", "approved"},
           ~DidTo(o, rule[2], a), <<o, rule[2], a>> \in trail'
    PROVE  ~DidTo(o, rule[1], a) /\ ~(rule[1] = "captured" /\ o = CapturedBy[a])
<1>1. PICK did : did = rule[2] /\ did \in {"reviewed", "approved"} /\ <<o, did, a>> \in trail' /\ <<o, did, a>> \notin trail
  BY DEF DidTo
<1>2. PICK q \in Request : CommitSubmit(q) \/ CommitReview(q) \/ CommitSignoff(q) \/ CommitReject(q) \/ CommitApprove(q)
  <2>1. trail' # trail
    BY <1>1
  <2>2. ASSUME NEW q \in Request, NEW b \in Application, NEW p \in Officer, BeginSubmit(q, b, p) \/ BeginReopen(q, b, p)
        PROVE  FALSE
    BY <2>1, <2>2 DEF BeginSubmit, BeginReopen, flow
  <2>3. ASSUME NEW q \in Request, NEW b \in Application, NEW p \in Officer, NEW outcome \in {"approve", "reject"},
               BeginDecide(q, b, p, outcome)
        PROVE  FALSE
    BY <2>1, <2>3 DEF BeginDecide, flow
  <2>4. ASSUME NEW q \in Request, NEW b \in Application, NEW p \in Officer, NEW s \in Step, NEW forward \in BOOLEAN,
               BeginReview(q, b, p, s, forward)
        PROVE  FALSE
    BY <2>1, <2>4 DEF BeginReview, flow
  <2>5. ASSUME NEW q \in Request, Count(q) \/ CommitReopen(q)
        PROVE  FALSE
    BY <2>1, <2>5 DEF Count, CommitReopen, flow
  <2>6. ASSUME NEW s \in Step, Switch(s)
        PROVE  FALSE
    BY <2>1, <2>6 DEF Switch
  <2> QED
    BY <2>2, <2>3, <2>4, <2>5, <2>6 DEF FlowStep
<1>3. CASE CommitSubmit(q)
  BY <1>1, <1>3 DEF CommitSubmit
<1>4. CASE CommitReview(q) \/ Signs(q)
  <2>1. PICK request : request = desk[q] /\ ApartOK(request)
    BY DEF ApartInv
  <2>2. trail' = trail \cup {<<request.by, Audited(request), request.app>>} /\ request.does \in {"review", "sign"}
    BY <1>4, <2>1 DEF CommitReview, Signs, Audited
  <2>3. o = request.by /\ did = Audited(request) /\ a = request.app
    BY <1>1, <2>2
  <2>4. KeptApart(o, did, a) /\ o # CapturedBy[a]
    BY <2>1, <2>2, <2>3 DEF ApartOK
  <2> QED
    BY <1>1, <2>4 DEF KeptApart
<1> QED
  BY <1>2, <1>3, <1>4 DEF CommitSignoff, CommitReject, CommitApprove

\* Nobody's review or decision lands on what they had captured or overseen,
\* nor a decision on what they had reviewed, whatever others commit between
\* their reads and their commit: for officers who finish one request before
\* the next, and while capture is a step.
THEOREM PeopleStayApart ==
    ASSUME "capture" \notin Switched
    PROVE  Spec /\ []OneAtATime => PeopleKeptApart
<1>1. Init => ApartInv
  <2> SUFFICES ASSUME Init
               PROVE  ApartInv
    OBVIOUS
  <2>1. "capture" \in enabled
    BY DEF Init, Step, Gate
  <2>2. CaptorsKnown
    BY DEF Init, CaptorsKnown
  <2>3. ApartOK(Idle)
    BY DEF ApartOK, Idle
  <2> QED
    BY <2>1, <2>2, <2>3 DEF Init, EmptyTill, ApartInv
<1>2. FeesInv /\ QuorumInv /\ ApartInv /\ OneAtATime /\ [Next]_vars => ApartInv'
  <2> SUFFICES ASSUME FeesInv, QuorumInv, ApartInv, OneAtATime, [Next]_vars
               PROVE  ApartInv'
    OBVIOUS
  <2>1. ASSUME StandsAside, UNCHANGED flow
        PROVE  ApartInv'
    BY <2>1, AsideIsApart, NobodyWrites DEF StandsAside, TurnsTo, flow, QuorumInv, ApartInv
  <2>2. CASE FeeStep /\ UNCHANGED <<papers, flow>>
    BY <2>1, <2>2, TillStandsAside
  <2>3. CASE PaperStep /\ UNCHANGED <<opened, money, flow>>
    BY <2>1, <2>3, PapersStandAside
  <2>4. CASE FlowStep
    BY <2>4, FlowKeepsApart
  <2>5. CASE UNCHANGED vars
    BY <2>1, <2>5 DEF vars, StandsAside, TurnsTo
  <2> QED
    BY <2>2, <2>3, <2>4, <2>5 DEF Next
<1>3. QuorumInv /\ ApartInv /\ [Next]_vars =>
        [\A a \in Application, o \in Officer, rule \in Rules :
           (~DidTo(o, rule[2], a) /\ <<o, rule[2], a>> \in trail' /\ rule[2] \in {"reviewed", "approved"}) =>
              /\ ~DidTo(o, rule[1], a)
              /\ ~(rule[1] = "captured" /\ o = CapturedBy[a])]_vars
  <2> SUFFICES ASSUME QuorumInv, ApartInv, Next, trail' # trail,
                      NEW a \in Application, NEW o \in Officer, NEW rule \in Rules,
                      ~DidTo(o, rule[2], a), <<o, rule[2], a>> \in trail', rule[2] \in {"reviewed", "approved"}
               PROVE  ~DidTo(o, rule[1], a) /\ ~(rule[1] = "captured" /\ o = CapturedBy[a])
    BY DEF DidTo
  <2>1. FlowStep
    BY DEF Next, flow
  <2> QED
    BY <2>1, WritesApart
<1> QED
  BY <1>1, <1>2, <1>3, TillUnderWorkflow, QuorumKept, PTL DEF Spec, PeopleKeptApart

----------------------------------------------------------------------------
(* The papers under the workflow                                           *)

\* The workflow neither writes what is filed nor has a version in hand.
LEMMA FlowLeavesPapers ==
    ASSUME QuorumInv, FlowStep
    PROVE  UNCHANGED papers /\ TurnsTo({"nothing", "submit", "reopen", "decide", "review", "sign"})
<1>1. ASSUME NEW q \in Request, NEW a \in Application, NEW o \in Officer, BeginSubmit(q, a, o)
      PROVE  UNCHANGED papers /\ TurnsTo({"submit"})
  <2>1. PICK next : /\ next = [does |-> "submit", app |-> a, by |-> o, to |-> ToStatus("capture"),
                               oversight |-> Oversight(o, a)]
                    /\ Sits(q, next)
    BY <1>1 DEF BeginSubmit
  <2>2. next.does = "submit"
    BY <2>1
  <2> QED
    BY <1>1, <2>1, <2>2 DEF BeginSubmit, TurnsTo
<1>2. ASSUME NEW q \in Request, NEW a \in Application, NEW o \in Officer, BeginReopen(q, a, o)
      PROVE  UNCHANGED papers /\ TurnsTo({"reopen"})
  <2>1. PICK next : next = [does |-> "reopen", app |-> a] /\ Sits(q, next)
    BY <1>2 DEF BeginReopen
  <2> QED
    BY <1>2, <2>1 DEF BeginReopen, TurnsTo
<1>3. ASSUME NEW q \in Request, NEW a \in Application, NEW o \in Officer, NEW outcome \in {"approve", "reject"},
             BeginDecide(q, a, o, outcome)
      PROVE  UNCHANGED papers /\ TurnsTo({"decide"})
  <2>1. PICK next : /\ next = [does |-> "decide", app |-> a, by |-> o, outcome |-> outcome,
                               to |-> ToStatus("president_decision")]
                    /\ Sits(q, next)
    BY <1>3 DEF BeginDecide
  <2>2. next.does = "decide"
    BY <2>1
  <2> QED
    BY <1>3, <2>1, <2>2 DEF BeginDecide, TurnsTo
<1>4. ASSUME NEW q \in Request, NEW a \in Application, NEW o \in Officer, NEW s \in Step, NEW forward \in BOOLEAN,
             BeginReview(q, a, o, s, forward)
      PROVE  UNCHANGED papers /\ TurnsTo({"review"})
  <2>1. PICK next : /\ next = [does |-> "review", app |-> a, by |-> o, step |-> s,
                               to |-> IF forward THEN ToStatus(s) ELSE "returned"]
                    /\ Sits(q, next)
    BY <1>4 DEF BeginReview
  <2>2. next.does = "review"
    BY <2>1
  <2> QED
    BY <1>4, <2>1, <2>2 DEF BeginReview, TurnsTo
<1>5. ASSUME NEW q \in Request, Count(q)
      PROVE  UNCHANGED papers /\ TurnsTo({"sign"})
  <2>1. PICK next : /\ next = [does |-> "sign", app |-> desk[q].app, by |-> desk[q].by,
                               outcome |-> desk[q].outcome, to |-> desk[q].to,
                               done |-> desk[q].outcome = "reject" \/ Enough(q)]
                    /\ Sits(q, next)
    BY <1>5 DEF Count
  <2>2. next.does = "sign"
    BY <2>1
  <2> QED
    BY <1>5, <2>1, <2>2 DEF Count, TurnsTo
<1>6. ASSUME NEW q \in Request, \/ CommitSubmit(q) \/ CommitReview(q) \/ CommitSignoff(q)
                                \/ CommitReject(q) \/ CommitApprove(q) \/ CommitReopen(q)
      PROVE  UNCHANGED papers /\ TurnsTo({"nothing"})
  <2>1. UNCHANGED papers /\ Sits(q, Idle)
    BY <1>6 DEF CommitSubmit, CommitReview, CommitSignoff, CommitReject, CommitApprove, CommitReopen, Signs
  <2> QED
    BY <2>1 DEF TurnsTo, Idle
<1>7. ASSUME NEW s \in Step, Switch(s)
      PROVE  UNCHANGED papers /\ TurnsTo({"nothing"})
  BY <1>7 DEF Switch, TurnsTo
<1>8. ASSUME UNCHANGED papers, NEW kind \in {"nothing", "submit", "reopen", "decide", "review", "sign"}, TurnsTo({kind})
      PROVE  UNCHANGED papers /\ TurnsTo({"nothing", "submit", "reopen", "decide", "review", "sign"})
  BY <1>8 DEF TurnsTo
<1> QED
  BY <1>1, <1>2, <1>3, <1>4, <1>5, <1>6, <1>7, <1>8 DEF FlowStep

LEMMA OthersLeavePapers ==
    ASSUME FeesInv, QuorumInv, PapersInv,
           \/ FeeStep /\ UNCHANGED <<papers, flow>>
           \/ FlowStep
    PROVE  PapersInv' /\ (Anchors => Anchors')
<1>1. UNCHANGED papers /\ TurnsTo(AtTheTill \cup {"nothing", "submit", "reopen", "decide", "review", "sign"})
  BY TillKeepsToItself, FlowLeavesPapers DEF TurnsTo
<1>2. \A kind \in AtTheTill \cup {"nothing", "submit", "reopen", "decide", "review", "sign"} :
          kind \notin {"look", "file", "remove", "delete"}
  BY DEF AtTheTill
<1> QED
  BY <1>1, <1>2, PapersBeside DEF TurnsTo

LEMMA PapersUnderWorkflow ==
    /\ Init => PapersInv /\ Anchors
    /\ FeesInv /\ QuorumInv /\ PapersInv /\ [Next]_vars => PapersInv'
    /\ SizesDiffer /\ FeesInv /\ QuorumInv /\ PapersInv /\ Anchors /\ [Next]_vars => Anchors'
<1>1. Init => PapersInv /\ Anchors
  BY NothingFiled DEF Init, EmptyTill, Anchors, Claims
<1>2. ASSUME FeesInv, QuorumInv, PapersInv, [Next]_vars
      PROVE  PapersInv' /\ (SizesDiffer /\ Anchors => Anchors')
  <2>1. CASE PaperStep
    BY <1>2, <2>1, PapersStepKeeps, AnchorsStepKeeps DEF PapersNext
  <2>2. CASE (FeeStep /\ UNCHANGED <<papers, flow>>) \/ FlowStep
    BY <1>2, <2>2, OthersLeavePapers
  <2>3. CASE UNCHANGED vars
    BY <1>2, <2>3, PapersBeside DEF vars
  <2> QED
    BY <1>2, <2>1, <2>2, <2>3 DEF Next
<1> QED
  BY <1>1, <1>2

\* A document has one live version at most with fees, reviews, decisions and
\* reopenings of its application under way beside its uploads.
THEOREM OneVersionUnderWorkflow == Spec => []OneLiveVersion
<1>1. PapersInv => OneLiveVersion
  BY DEF PapersInv
<1> QED
  BY <1>1, PapersUnderWorkflow, TillUnderWorkflow, QuorumKept, PTL DEF Spec

\* The file of a live version is in the drive under its name, and its own, with
\* all of that under way, as long as no two files are of one size.
THEOREM LiveFilesUnderWorkflow ==
    ASSUME SizesDiffer
    PROVE  Spec => []LiveFileIsItsOwn
<1>1. FeesInv /\ QuorumInv /\ PapersInv /\ Anchors /\ [Next]_vars => Anchors'
  BY PapersUnderWorkflow
<1> QED
  BY <1>1, PapersUnderWorkflow, AnchorsMean, TillUnderWorkflow, QuorumKept, PTL DEF Spec
=============================================================================
