---------------------------- MODULE LedgerProofs ----------------------------
(***************************************************************************)
(* What post_transaction and the triggers guarantee for every set of       *)
(* accounts, transactions and requests, whatever the application does.     *)
(***************************************************************************)
EXTENDS Ledger, Sums, SequenceTheorems, TLAPS

----------------------------------------------------------------------------
(* Facts about one posting, shared by every specification that posts. *)

\* A row that is on the table, with its columns consistent.
GoodRow(r) == r \in Row /\ WellFormed(r)

\* The tables as a database transaction hands them to a posting.
GoodTables(rows, accts) ==
    /\ rows \in [Tx -> Row \cup {NoRow}]
    /\ \A t \in Tx : rows[t] # NoRow => WellFormed(rows[t])
    /\ accts \in [Account -> AccountStatus]

Movement == [account : Account, tx : Tx, direction : Direction, amount : Nat \ {0}]

\* The movement of an account that moved is one of the posting's.
LEMMA MovedOnIsMovement ==
    ASSUME NEW M, NEW a \in Moved(M)
    PROVE  MovedOn(a, M) \in M /\ MovedOn(a, M).account = a
BY DEF Moved, MovedOn

\* The entry a movement becomes on an account whose cache was c, and the
\* cache it leaves.
EntryOf(m, c) == [tx        |-> m.tx,
                  direction |-> m.direction,
                  amount    |-> m.amount,
                  after     |-> c.balance + Signed(m.direction, m.amount)]

CacheOf(m, c) == [balance |-> c.balance + Signed(m.direction, m.amount),
                  entries |-> c.entries + 1]

\* A transaction that settles nothing together moves its own account by its
\* own amount; a withdrawal and a transfer's legs the way they say, and a
\* reversal the other way from its original's entry.
AsAsked(m, r) ==
    ~SettlesTogether(r) =>
        /\ m.account = r.account
        /\ m.amount = r.amount
        /\ r.kind = "withdrawal" => m.direction = "debit"
        /\ r.kind = "transfer_leg" => m.direction = r.leg
        /\ r.kind = "reversal" => m.direction = Opposite(CHOOSE d \in DirectionsOf(r.reverses) : TRUE)

\* How the journal and the cache of an account may move when the
\* transactions of S post: not at all, or by one movement of one of them.
MovesFor(S, rows, a, journal, journalAfter, c, cAfter) ==
    \/ journalAfter = journal /\ cAfter = c
    \/ \E m \in Movement : /\ m.account = a
                           /\ m.tx \in S
                           /\ AsAsked(m, rows[m.tx])
                           /\ journalAfter = Append(journal, EntryOf(m, c))
                           /\ cAfter = CacheOf(m, c)

\* Each movement is a positive amount, one way or the other, on an account.
LEMMA MovementsTyped ==
    ASSUME TablesOK, NEW t \in Tx, NEW r, GoodRow(r),
           NEW accts \in [Account -> AccountStatus]
    PROVE  \A m \in Movements(t, r, accts) : m \in Movement /\ m.tx = t /\ AsAsked(m, r)
<1>1. CASE SettlesTogether(r)
  <2>1. \A a \in Account : cache[a].balance \in Int
    BY DEF TablesOK
  <2>2. \A a \in {b \in Leaving(r, accts) : cache[b].balance > 0} :
            a \in Account /\ cache[a].balance \in Nat \ {0}
    BY <1>1, <2>1 DEF Leaving, Covers
  <2> QED
    BY <1>1, <2>2 DEF Movements, Movement, Direction, AsAsked
<1>2. CASE ~SettlesTogether(r)
  <2>1. DirectionOf(r) \in Direction
    BY DEF DirectionOf, Direction, Opposite, GoodRow, WellFormed, Row, Kind
  <2>2. r.amount \in Nat /\ r.account \in Account
    BY DEF GoodRow, Row
  <2> QED
    BY <1>2, <2>1, <2>2 DEF Movements, Movement, AsAsked, DirectionOf
<1> QED
  BY <1>1, <1>2

\* A posting moves every account so.
LEMMA PostingMoves ==
    ASSUME TablesOK, NEW S \in SUBSET Tx, NEW rows, NEW accts,
           GoodTables(rows, accts), PostAll(S, rows, accts)
    PROVE  \A a \in Account :
              MovesFor(S, rows, a, entry[a], entry'[a], cache[a], cache'[a])
<1> DEFINE M == UNION {Movements(t, rows[t], accts) : t \in S}
<1>1. \A t \in S : GoodRow(rows[t])
  BY DEF PostAll, Enter, CanPost, GoodTables, GoodRow, NoRow
<1>2. \A m \in M : m \in Movement /\ m.tx \in S /\ AsAsked(m, rows[m.tx])
  BY <1>1, MovementsTyped DEF GoodTables
<1> SUFFICES ASSUME NEW a \in Account
             PROVE  MovesFor(S, rows, a, entry[a], entry'[a], cache[a], cache'[a])
  OBVIOUS
<1>3. entry'[a] = IF a \in Moved(M) THEN Append(entry[a], EntryAfter(a, M)) ELSE entry[a]
  BY DEF PostAll, Enter
<1>4. cache'[a] = IF a \in Moved(M) THEN CacheAfter(a, M) ELSE cache[a]
  BY DEF PostAll, Enter
<1>5. CASE a \in Moved(M)
  <2>1. MovedOn(a, M) \in M /\ MovedOn(a, M).account = a
    BY <1>5, MovedOnIsMovement
  <2>2. EntryAfter(a, M) = EntryOf(MovedOn(a, M), cache[a]) /\ CacheAfter(a, M) = CacheOf(MovedOn(a, M), cache[a])
    BY DEF EntryAfter, EntryOf, CacheAfter, CacheOf, BalanceAfter
  <2> QED
    BY <1>2, <1>3, <1>4, <1>5, <2>1, <2>2 DEF MovesFor
<1>6. CASE a \notin Moved(M)
  BY <1>3, <1>4, <1>6 DEF MovesFor
<1> QED
  BY <1>5, <1>6

\* A posting leaves every table with rows its constraints allow.
LEMMA PostingKeepsTables ==
    ASSUME TablesOK, NEW S \in SUBSET Tx, NEW rows, NEW accts,
           GoodTables(rows, accts), PostAll(S, rows, accts)
    PROVE  TablesOK'
<1>1. tx' \in [Tx -> Row \cup {NoRow}] /\ \A t \in Tx : tx'[t] # NoRow => WellFormed(tx'[t])
  <2>1. tx' = [t \in Tx |-> IF t \in S THEN [rows[t] EXCEPT !.status = "posted"] ELSE rows[t]]
    BY DEF PostAll, RowsAfter
  <2>2. \A t \in S : GoodRow(rows[t])
    BY DEF PostAll, Enter, CanPost, GoodTables, GoodRow, NoRow
  <2>3. \A t \in S : GoodRow([rows[t] EXCEPT !.status = "posted"])
    BY <2>2 DEF GoodRow, Row, WellFormed, Status
  <2> QED
    BY <2>1, <2>3 DEF GoodRow, GoodTables
<1>2. account' \in [Account -> AccountStatus]
  BY DEF PostAll, Enter, AccountsAfter, GoodTables, AccountStatus
<1>3. holder' \in [Holder -> HolderStatus]
  BY DEF PostAll, HoldersAfter, TablesOK, HolderStatus
<1>4. \A a \in Account : entry'[a] \in Seq(Entry)
                         /\ cache'[a] \in [balance : Int, entries : Nat]
  <2> SUFFICES ASSUME NEW a \in Account
               PROVE  entry'[a] \in Seq(Entry) /\ cache'[a] \in [balance : Int, entries : Nat]
    OBVIOUS
  <2>1. entry[a] \in Seq(Entry) /\ cache[a] \in [balance : Int, entries : Nat]
    BY DEF TablesOK
  <2>2. CASE entry'[a] = entry[a] /\ cache'[a] = cache[a]
    BY <2>1, <2>2
  <2>3. ASSUME NEW m \in Movement, entry'[a] = Append(entry[a], EntryOf(m, cache[a])),
               cache'[a] = CacheOf(m, cache[a])
        PROVE  entry'[a] \in Seq(Entry) /\ cache'[a] \in [balance : Int, entries : Nat]
    <3>1. Signed(m.direction, m.amount) \in Int
      BY DEF Movement, Signed
    <3>2. EntryOf(m, cache[a]) \in Entry /\ CacheOf(m, cache[a]) \in [balance : Int, entries : Nat]
      BY <2>1, <3>1 DEF Movement, EntryOf, CacheOf, Entry
    <3> QED
      BY <2>1, <2>3, <3>2, AppendProperties
  <2> QED
    BY <2>2, <2>3, PostingMoves DEF MovesFor
<1>5. entry' \in [Account -> Seq(Entry)] /\ cache' \in [Account -> [balance : Int, entries : Nat]]
  BY <1>4 DEF PostAll, Enter
<1> QED
  BY <1>1, <1>2, <1>3, <1>5 DEF TablesOK

----------------------------------------------------------------------------
(* Type correctness *)

\* One lemma for the statements that write rows and statuses but no entry.
LEMMA StatementsKeepTables ==
    ASSUME TablesOK, NEW t \in Tx, Insert(t) \/ Update(t) \/ Delete(t)
    PROVE  TablesOK'
<1>1. CASE Insert(t)
  <2>1. PICK r \in Requests[t] : tx' = [tx EXCEPT ![t] = r]
    BY <1>1 DEF Insert
  <2>2. GoodRow(r)
    BY <2>1, RequestsAssumption DEF GoodRow
  <2> QED
    BY <1>1, <2>1, <2>2 DEF Insert, TablesOK, GoodRow
<1>2. CASE Update(t)
  <2>1. PICK s \in WorkStatus, amount \in Amounts :
            /\ WellFormed([tx[t] EXCEPT !.status = s, !.amount = amount])
            /\ tx' = [tx EXCEPT ![t] = [tx[t] EXCEPT !.status = s, !.amount = amount]]
    BY <1>2 DEF Update
  <2>2. tx[t] \in Row
    BY <1>2 DEF Update, TablesOK
  <2>3. [tx[t] EXCEPT !.status = s, !.amount = amount] \in Row
    BY <2>2, WorkStatusAssumption, AmountsAssumption DEF Row
  <2> QED
    BY <1>2, <2>1, <2>3 DEF Update, TablesOK
<1>3. CASE Delete(t)
  BY <1>3 DEF Delete, TablesOK
<1> QED
  BY <1>1, <1>2, <1>3

LEMMA SetAccountStatusKeepsTables ==
    ASSUME TablesOK, NEW a \in Account, SetAccountStatus(a)
    PROVE  TablesOK'
<1>1. OpenStatus \subseteq AccountStatus
  BY OpenStatusAssumption
<1> QED
  BY <1>1 DEF SetAccountStatus, TablesOK

\* A posting is PostAll of transactions on the table.
LEMMA PostIsPostAll ==
    ASSUME TablesOK, NEW t \in Tx, Post(t)
    PROVE  /\ PostedWith(t, tx) \in SUBSET Tx
           /\ GoodTables(tx, account)
           /\ PostAll(PostedWith(t, tx), tx, account)
BY DEF Post, PostedWith, CreditLegOf, GoodTables, TablesOK

\* What a posting does to one account.
LEMMA PostMoves ==
    ASSUME TypeOK, NEW t \in Tx, Post(t)
    PROVE  \A a \in Account :
              MovesFor(PostedWith(t, tx), tx, a, entry[a], entry'[a], cache[a], cache'[a])
<1>1. PICK S, rows, accts :
          S \in SUBSET Tx /\ S = PostedWith(t, tx) /\ rows = tx /\ accts = account
  BY PostIsPostAll DEF TypeOK
<1>2. GoodTables(rows, accts) /\ PostAll(S, rows, accts)
  BY <1>1, PostIsPostAll DEF TypeOK, PostAll, Enter, GoodTables
<1>3. \A a \in Account :
              MovesFor(S, rows, a, entry[a], entry'[a], cache[a], cache'[a])
  BY <1>1, <1>2, PostingMoves DEF TypeOK
<1> QED
  BY <1>1, <1>3

LEMMA StepKeepsTables == TypeOK /\ [Next]_vars => TypeOK'
<1> SUFFICES ASSUME TablesOK, [Next]_vars
             PROVE  TablesOK'
  BY DEF TypeOK
<1>1. ASSUME NEW t \in Tx, Insert(t) \/ Update(t) \/ Delete(t)
      PROVE  TablesOK'
  BY <1>1, StatementsKeepTables
<1>2. ASSUME NEW t \in Tx, Post(t)
      PROVE  TablesOK'
  BY <1>2, PostIsPostAll, PostingKeepsTables
<1>3. ASSUME NEW a \in Account, SetAccountStatus(a)
      PROVE  TablesOK'
  BY <1>3, SetAccountStatusKeepsTables
<1>4. CASE UNCHANGED vars
  BY <1>4 DEF vars, tables, TablesOK
<1> QED
  BY <1>1, <1>2, <1>3, <1>4 DEF Next

LEMMA InitTables == Init => TypeOK
BY EmptySeq DEF Init, EmptyTables, TypeOK, TablesOK, AccountStatus, HolderStatus, NoRow

\* Whatever order the application's statements come in, every table holds
\* rows its constraints allow.
THEOREM TypeCorrect == Spec => []TypeOK
BY InitTables, StepKeepsTables, PTL DEF Spec

----------------------------------------------------------------------------
(* The running balance *)

\* A statement that posts nothing writes no entry and no balance.
LEMMA OnlyPostsMove ==
    ASSUME [Next]_vars, ~ \E t \in Tx : Post(t)
    PROVE  UNCHANGED <<entry, cache>>
BY DEF Next, vars, tables, Insert, Update, Delete, SetAccountStatus

\* The entry a posting appends carries the balance on from the one before.
LEMMA AppendingRunsOn ==
    ASSUME TablesOK, NEW a \in Account, RunningOn(a), NEW m \in Movement,
           entry'[a] = Append(entry[a], EntryOf(m, cache[a])),
           cache'[a] = CacheOf(m, cache[a])
    PROVE  RunningOn(a)'
<1> DEFINE e == EntryOf(m, cache[a])
<1>0. PICK n \in Nat : n = Len(entry[a]) /\ DOMAIN entry[a] = 1..n
  BY LenProperties DEF TablesOK
<1>1. entry[a] \in Seq(Entry) /\ n = Len(entry[a]) /\ DOMAIN entry[a] = 1..n
  BY <1>0 DEF TablesOK
<1>2. /\ Len(entry'[a]) = n + 1
      /\ DOMAIN entry'[a] = 1..(n + 1)
      /\ \A i \in 1..n : entry'[a][i] = entry[a][i]
      /\ entry'[a][n + 1] = e
  <2>1. e \in Entry
    BY DEF TablesOK, Movement, EntryOf, Entry, Signed
  <2> QED
    BY <1>1, <2>1, AppendProperties
<1>3. \A i \in 1..(n + 1) : BalanceBefore(a, i)' = BalanceBefore(a, i)
  BY <1>0, <1>1, <1>2 DEF BalanceBefore
<1>4. e.after = cache[a].balance + Signed(e.direction, e.amount)
  BY DEF EntryOf
<1>5. cache[a].balance = BalanceBefore(a, n + 1)
  BY <1>0 DEF RunningOn
<1>6. \A i \in 1..(n + 1) :
          entry'[a][i].after = BalanceBefore(a, i)'
                               + Signed(entry'[a][i].direction, entry'[a][i].amount)
  <2>1. \A i \in 1..n :
            entry'[a][i].after = BalanceBefore(a, i)'
                                 + Signed(entry'[a][i].direction, entry'[a][i].amount)
    BY <1>0, <1>1, <1>2, <1>3 DEF RunningOn
  <2>2. entry'[a][n + 1].after = BalanceBefore(a, n + 1)'
                + Signed(entry'[a][n + 1].direction, entry'[a][n + 1].amount)
    BY <1>0, <1>1, <1>2, <1>3, <1>4, <1>5
  <2> QED
    BY <1>0, <1>1, <2>1, <2>2
<1>7. cache'[a].balance = BalanceBefore(a, (n + 1) + 1)'
  <2>1. BalanceBefore(a, (n + 1) + 1)' = entry'[a][n + 1].after
    BY <1>0 DEF BalanceBefore
  <2> QED
    BY <1>2, <2>1 DEF CacheOf, EntryOf
<1> QED
  BY <1>2, <1>6, <1>7 DEF RunningOn

LEMMA StepKeepsRunning == TypeOK /\ RunningBalance /\ [Next]_vars => RunningBalance'
<1> SUFFICES ASSUME TablesOK, RunningBalance, [Next]_vars, NEW a \in Account
             PROVE  RunningOn(a)'
  BY DEF TypeOK, RunningBalance
<1>1. RunningOn(a)
  BY DEF RunningBalance
<1>2. ASSUME entry'[a] = entry[a], cache'[a] = cache[a]
      PROVE  RunningOn(a)'
  BY <1>1, <1>2 DEF RunningOn, BalanceBefore
<1>3. CASE ~ \E t \in Tx : Post(t)
  BY <1>2, <1>3, OnlyPostsMove
<1>4. ASSUME NEW t \in Tx, Post(t)
      PROVE  RunningOn(a)'
  <2>1. \/ entry'[a] = entry[a] /\ cache'[a] = cache[a]
        \/ \E m \in Movement : /\ entry'[a] = Append(entry[a], EntryOf(m, cache[a]))
                               /\ cache'[a] = CacheOf(m, cache[a])
    BY <1>4, PostMoves DEF TypeOK, MovesFor
  <2> QED
    BY <1>1, <1>2, <2>1, AppendingRunsOn
<1> QED
  BY <1>3, <1>4

LEMMA InitRuns == Init => RunningBalance
BY DEF Init, EmptyTables, RunningBalance, RunningOn, BalanceBefore

\* On every account, after any postings in any order, each entry's balance is
\* the one before it moved by the entry's amount, and the cached balance is
\* where they end: account_balance never drifts from account_entry.
THEOREM RunningBalanceHolds == Spec => []RunningBalance
<1>1. Init => TypeOK /\ RunningBalance
  BY InitTables, InitRuns
<1>2. TypeOK /\ RunningBalance /\ [Next]_vars => (TypeOK /\ RunningBalance)'
  BY StepKeepsTables, StepKeepsRunning
<1> QED
  BY <1>1, <1>2, PTL DEF Spec

----------------------------------------------------------------------------
(* The cache and the sum of the entries *)

Signs(j) == [i \in DOMAIN j |-> Signed(j[i].direction, j[i].amount)]

LEMMA EntrySumIs ==
    ASSUME TablesOK, NEW a \in Account
    PROVE  /\ EntrySum(a) = SumFunctionOnSet(Signs(entry[a]), 1..Len(entry[a]))
           /\ Len(entry[a]) \in Nat /\ DOMAIN entry[a] = 1..Len(entry[a])
<1>1. Len(entry[a]) \in Nat /\ DOMAIN entry[a] = 1..Len(entry[a])
  BY LenProperties DEF TablesOK
<1>2. DOMAIN Signs(entry[a]) = 1..Len(entry[a])
  BY <1>1 DEF Signs
<1> QED
  BY <1>1, <1>2 DEF EntrySum, SumFunction, Signs

\* One entry more moves the sum by its amount.
LEMMA AppendingAdds ==
    ASSUME NEW j \in Seq(Entry), NEW e \in Entry
    PROVE  /\ SumFunctionOnSet(Signs(j), 1..Len(j)) \in Int
           /\ Len(Append(j, e)) = Len(j) + 1
           /\ SumFunctionOnSet(Signs(Append(j, e)), 1..(Len(j) + 1))
                  = SumFunctionOnSet(Signs(j), 1..Len(j)) + Signed(e.direction, e.amount)
<1>1. Len(j) \in Nat /\ DOMAIN j = 1..Len(j)
  BY LenProperties
<1>2. /\ Len(Append(j, e)) = Len(j) + 1
      /\ DOMAIN Append(j, e) = 1..(Len(j) + 1)
      /\ \A i \in 1..Len(j) : Append(j, e)[i] = j[i]
      /\ Append(j, e)[Len(j) + 1] = e
      /\ Append(j, e) \in Seq(Entry)
  BY <1>1, AppendProperties
<1> DEFINE f == Signs(j)
           h == Signs(Append(j, e))
<1>3. \A i \in 1..Len(j) : f[i] = h[i]
  BY <1>1, <1>2 DEF Signs
<1>4. \A i \in 1..(Len(j) + 1) : h[i] \in Int
  <2>1. \A i \in 1..(Len(j) + 1) : Append(j, e)[i] \in Entry
    BY <1>1, <1>2
  <2>2. \A x \in Entry : Signed(x.direction, x.amount) \in Int
    BY DEF Entry, Signed
  <2> QED
    BY <1>2, <2>1, <2>2 DEF Signs
<1>5. h[Len(j) + 1] = Signed(e.direction, e.amount)
  BY <1>1, <1>2 DEF Signs
<1> HIDE DEF f, h
<1>6. /\ SumFunctionOnSet(f, 1..Len(j)) \in Int
      /\ SumFunctionOnSet(h, 1..(Len(j) + 1)) = SumFunctionOnSet(f, 1..Len(j)) + h[Len(j) + 1]
  BY <1>1, <1>3, <1>4, SumOfAppended
<1> QED
  BY <1>2, <1>5, <1>6 DEF f, h

NoDriftOn(a) == cache[a].balance = EntrySum(a) /\ cache[a].entries = Len(entry[a])

LEMMA StepKeepsSum == TypeOK /\ NoDrift /\ [Next]_vars => NoDrift'
<1> SUFFICES ASSUME TablesOK, NoDrift, [Next]_vars, NEW a \in Account
             PROVE  NoDriftOn(a)'
  BY DEF TypeOK, NoDrift, NoDriftOn
<1>1. NoDriftOn(a)
  BY DEF NoDrift, NoDriftOn
<1>2. ASSUME entry'[a] = entry[a], cache'[a] = cache[a]
      PROVE  NoDriftOn(a)'
  BY <1>1, <1>2 DEF NoDriftOn, EntrySum
<1>3. CASE ~ \E t \in Tx : Post(t)
  BY <1>2, <1>3, OnlyPostsMove
<1>4. ASSUME NEW t \in Tx, Post(t)
      PROVE  NoDriftOn(a)'
  <2>1. \/ entry'[a] = entry[a] /\ cache'[a] = cache[a]
        \/ \E m \in Movement : /\ entry'[a] = Append(entry[a], EntryOf(m, cache[a]))
                               /\ cache'[a] = CacheOf(m, cache[a])
    BY <1>4, PostMoves DEF TypeOK, MovesFor
  <2>2. ASSUME NEW m \in Movement, entry'[a] = Append(entry[a], EntryOf(m, cache[a])),
               cache'[a] = CacheOf(m, cache[a])
        PROVE  NoDriftOn(a)'
    <3>1. PICK e \in Entry : e = EntryOf(m, cache[a])
      <4>1. cache[a].balance \in Int
        BY DEF TablesOK
      <4>2. EntryOf(m, cache[a]) \in Entry
        BY <4>1 DEF Movement, EntryOf, Entry, Signed
      <4> QED
        BY <4>2
    <3>2. PICK j \in Seq(Entry) : j = entry[a]
      BY DEF TablesOK
    <3>3. /\ Len(entry'[a]) = Len(j) + 1
          /\ SumFunctionOnSet(Signs(entry'[a]), 1..(Len(j) + 1))
                 = SumFunctionOnSet(Signs(j), 1..Len(j)) + Signed(e.direction, e.amount)
      BY <2>2, <3>1, <3>2, AppendingAdds
    <3>4. EntrySum(a) = SumFunctionOnSet(Signs(j), 1..Len(j))
      BY <3>2, EntrySumIs
    <3>5. EntrySum(a)' = SumFunctionOnSet(Signs(entry'[a]), 1..Len(entry'[a]))
      <4>1. TablesOK'
        BY StepKeepsTables DEF TypeOK
      <4>2. Len(entry'[a]) \in Nat /\ DOMAIN entry'[a] = 1..Len(entry'[a])
        BY <4>1, LenProperties DEF TablesOK
      <4>3. DOMAIN Signs(entry'[a]) = 1..Len(entry'[a])
        BY <4>2 DEF Signs
      <4> QED
        BY <4>2, <4>3 DEF EntrySum, SumFunction, Signs
    <3>6. cache'[a].balance = cache[a].balance + Signed(e.direction, e.amount)
      BY <2>2, <3>1 DEF CacheOf, EntryOf
    <3>7. cache'[a].entries = cache[a].entries + 1
      BY <2>2 DEF CacheOf
    <3> QED
      BY <1>1, <3>2, <3>3, <3>4, <3>5, <3>6, <3>7 DEF NoDriftOn
  <2> QED
    BY <1>2, <2>1, <2>2
<1> QED
  BY <1>3, <1>4

LEMMA InitAddsUp == Init => NoDrift
<1> SUFFICES ASSUME Init, NEW a \in Account
             PROVE  NoDriftOn(a)
  BY DEF NoDrift, NoDriftOn
<1>1. entry[a] = <<>> /\ cache[a].balance = 0 /\ cache[a].entries = 0
  BY DEF Init, EmptyTables
<1>2. EntrySum(a) = SumFunctionOnSet(Signs(entry[a]), 1..Len(entry[a]))
  BY InitTables, EntrySumIs DEF TypeOK
<1>3. Len(entry[a]) = 0 /\ 1..Len(entry[a]) = {}
  BY <1>1
<1>4. SumFunctionOnSet(Signs(entry[a]), {}) = 0
  BY FS_EmptySet, SumTakesOne
<1> QED
  BY <1>1, <1>2, <1>3, <1>4 DEF NoDriftOn

\* ledger_drift() never finds a row: whatever the application's statements and
\* the order of the postings, every account's cached balance is the sum of its
\* entries, and its count their number.
THEOREM CacheNeverDrifts == Spec => []NoDrift
<1>1. Init => TypeOK /\ NoDrift
  BY InitTables, InitAddsUp
<1>2. TypeOK /\ NoDrift /\ [Next]_vars => (TypeOK /\ NoDrift)'
  BY StepKeepsTables, StepKeepsSum
<1> QED
  BY <1>1, <1>2, PTL DEF Spec

----------------------------------------------------------------------------
(* What is posted is final *)

\* What the entries of one account may do in a step, in the words both the
\* finality of entries and the refinement of Books need.
LEMMA AppendedOne ==
    ASSUME TablesOK, NEW a \in Account, NEW m \in Movement,
           entry'[a] = Append(entry[a], EntryOf(m, cache[a]))
    PROVE  /\ Len(entry[a]) \in Nat
           /\ Len(entry'[a]) = Len(entry[a]) + 1
           /\ \A i \in DOMAIN entry[a] : entry'[a][i] = entry[a][i]
           /\ DOMAIN entry[a] = 1..Len(entry[a])
           /\ DOMAIN entry'[a] = 1..(Len(entry[a]) + 1)
           /\ entry'[a][Len(entry[a]) + 1] = EntryOf(m, cache[a])
<1>1. entry[a] \in Seq(Entry)
  BY DEF TablesOK
<1>2. EntryOf(m, cache[a]) \in Entry
  BY DEF TablesOK, Movement, EntryOf, Entry, Signed
<1> QED
  BY <1>1, <1>2, AppendProperties, LenProperties

\* What a step does to a posted row: nothing.
LEMMA PostedRowStays ==
    ASSUME TypeOK, [Next]_vars, NEW t \in Tx, tx[t].status = "posted"
    PROVE  tx'[t] = tx[t]
<1>1. ASSUME NEW u \in Tx, Insert(u)
      PROVE  tx'[t] = tx[t]
  <2>1. t # u
    BY <1>1 DEF Insert, NoRow
  <2> QED
    BY <1>1, <2>1 DEF Insert, TypeOK, TablesOK
<1>2. ASSUME NEW u \in Tx, Update(u) \/ Delete(u)
      PROVE  tx'[t] = tx[t]
  <2>1. t # u
    BY <1>2 DEF Update, Delete
  <2> QED
    BY <1>2, <2>1 DEF Update, Delete, TypeOK, TablesOK
<1>3. ASSUME NEW u \in Tx, Post(u)
      PROVE  tx'[t] = tx[t]
  <2>1. PostAll(PostedWith(u, tx), tx, account)
    BY <1>3, PostIsPostAll DEF TypeOK
  <2>2. t \notin PostedWith(u, tx)
    BY <2>1 DEF PostAll, Enter, CanPost
  <2> QED
    BY <2>1, <2>2 DEF PostAll, RowsAfter
<1>4. CASE UNCHANGED vars
  BY <1>4 DEF vars, tables
<1>5. ASSUME NEW a \in Account, SetAccountStatus(a)
      PROVE  tx'[t] = tx[t]
  BY <1>5 DEF SetAccountStatus
<1> QED
  BY <1>1, <1>2, <1>3, <1>4, <1>5 DEF Next

\* What a step does to the entries of an account: nothing, or one more.
LEMMA EntriesGrow ==
    ASSUME TypeOK, [Next]_vars, NEW a \in Account
    PROVE  /\ Len(entry'[a]) >= Len(entry[a])
           /\ \A i \in DOMAIN entry[a] : entry'[a][i] = entry[a][i]
<1>1. Len(entry[a]) \in Nat
  BY LenProperties DEF TypeOK, TablesOK
<1>2. CASE entry'[a] = entry[a]
  BY <1>1, <1>2
<1>3. CASE ~ \E t \in Tx : Post(t)
  BY <1>2, <1>3, OnlyPostsMove
<1>4. ASSUME NEW t \in Tx, Post(t)
      PROVE  \/ entry'[a] = entry[a]
             \/ \E m \in Movement : entry'[a] = Append(entry[a], EntryOf(m, cache[a]))
  BY <1>4, PostMoves DEF MovesFor
<1>5. ASSUME NEW m \in Movement, entry'[a] = Append(entry[a], EntryOf(m, cache[a]))
      PROVE  /\ Len(entry'[a]) >= Len(entry[a])
             /\ \A i \in DOMAIN entry[a] : entry'[a][i] = entry[a][i]
  BY <1>1, <1>5, AppendedOne DEF TypeOK
<1> QED
  BY <1>2, <1>3, <1>4, <1>5

\* No statement edits a posted transaction or an entry already written: the
\* triggers of 0064 leave a mistake only a later transaction.
THEOREM PostedNeverEdited == Spec => PostedIsFinal
<1>1. TypeOK /\ [Next]_vars =>
          /\ \A t \in Tx : tx[t].status = "posted" => tx'[t] = tx[t]
          /\ \A a \in Account : /\ Len(entry'[a]) >= Len(entry[a])
                                /\ \A i \in DOMAIN entry[a] : entry'[a][i] = entry[a][i]
  BY PostedRowStays, EntriesGrow
<1> QED
  BY <1>1, TypeCorrect, PTL DEF Spec, PostedIsFinal

----------------------------------------------------------------------------
(* The tables implement the books *)

\* A statement that is not a posting leaves the same transactions posted.
LEMMA OnlyPostsPost ==
    ASSUME TypeOK, [Next]_vars, ~ \E t \in Tx : Post(t)
    PROVE  Posted' = Posted
<1>1. ASSUME NEW t \in Tx, Insert(t)
      PROVE  Posted' = Posted
  <2>1. PICK r \in Requests[t] : tx' = [tx EXCEPT ![t] = r]
    BY <1>1 DEF Insert
  <2>2. r.status # "posted" /\ tx[t].status # "posted"
    BY <1>1, <2>1, RequestsAssumption DEF Insert, NoRow
  <2> QED
    BY <2>1, <2>2 DEF Posted, TypeOK, TablesOK
<1>2. ASSUME NEW t \in Tx, Update(t)
      PROVE  Posted' = Posted
  <2>1. PICK s \in WorkStatus, amount \in Amounts :
            tx' = [tx EXCEPT ![t] = [tx[t] EXCEPT !.status = s, !.amount = amount]]
    BY <1>2 DEF Update
  <2>2. tx[t] \in Row /\ tx[t].status # "posted" /\ s # "posted"
    BY <1>2, WorkStatusAssumption DEF Update, TypeOK, TablesOK
  <2>3. tx'[t].status = s /\ \A u \in Tx \ {t} : tx'[u] = tx[u]
    BY <2>1, <2>2 DEF TypeOK, TablesOK, Row
  <2> QED
    BY <2>2, <2>3 DEF Posted
<1>3. ASSUME NEW t \in Tx, Delete(t)
      PROVE  Posted' = Posted
  BY <1>3 DEF Delete, Posted, TypeOK, TablesOK, NoRow
<1>4. ASSUME NEW a \in Account, SetAccountStatus(a)
      PROVE  Posted' = Posted
  BY <1>4 DEF SetAccountStatus, Posted
<1>5. CASE UNCHANGED vars
  BY <1>5 DEF vars, tables, Posted
<1> QED
  BY <1>1, <1>2, <1>3, <1>4, <1>5 DEF Next

\* A posting posts transactions that were not posted, and nothing else.
LEMMA PostingPosts ==
    ASSUME TypeOK, NEW t \in Tx, Post(t)
    PROVE  /\ PostedWith(t, tx) \subseteq Tx \ Posted
           /\ Posted' = Posted \cup PostedWith(t, tx)
<1> DEFINE S == PostedWith(t, tx)
<1>1. S \subseteq Tx /\ PostAll(S, tx, account)
  BY PostIsPostAll DEF TypeOK
<1>2. \A s \in S : tx[s].status \in {"submitted", "approved"} /\ tx[s] \in Row
  BY <1>1 DEF PostAll, Enter, CanPost, TypeOK, TablesOK, NoRow
<1>3. \A u \in Tx : tx'[u] = IF u \in S THEN [tx[u] EXCEPT !.status = "posted"] ELSE tx[u]
  BY <1>1 DEF PostAll, RowsAfter
<1>4. \A s \in S : tx'[s].status = "posted"
  BY <1>1, <1>2, <1>3 DEF Row
<1> QED
  BY <1>1, <1>2, <1>3, <1>4 DEF Posted

LEMMA StepImplementsBooks == TypeOK /\ [Next]_vars => [LedgerBooks!Next]_LedgerBooks!vars
<1> SUFFICES ASSUME TypeOK, [Next]_vars
             PROVE  [LedgerBooks!Next]_LedgerBooks!vars
  OBVIOUS
<1>1. CASE ~ \E t \in Tx : Post(t)
  BY <1>1, OnlyPostsMove, OnlyPostsPost DEF LedgerBooks!vars
<1>2. ASSUME NEW t \in Tx, Post(t)
      PROVE  LedgerBooks!Next
  <2> DEFINE S == PostedWith(t, tx)
  <2>1. S \in SUBSET (Tx \ Posted) /\ Posted' = Posted \cup S
    BY <1>2, PostingPosts
  <2>2. ASSUME NEW a \in Account
        PROVE  LedgerBooks!Untouched(a) \/ LedgerBooks!Grows(a, S)
    <3>1. ASSUME NEW m \in Movement, m.tx \in S,
                 entry'[a] = Append(entry[a], EntryOf(m, cache[a])), cache'[a] = CacheOf(m, cache[a])
          PROVE  LedgerBooks!Grows(a, S)
      <4>1. entry'[a][Len(entry[a]) + 1] = EntryOf(m, cache[a])
        BY <3>1, AppendedOne DEF TypeOK
      <4>2. EntryOf(m, cache[a]).amount > 0
        BY DEF EntryOf, Movement
      <4> QED
        BY <3>1, <4>1, <4>2 DEF LedgerBooks!Grows, EntryOf, CacheOf, Signed
    <3>2. \/ entry'[a] = entry[a] /\ cache'[a] = cache[a]
          \/ \E m \in Movement : /\ m.account = a
                                 /\ m.tx \in PostedWith(t, tx)
                                 /\ AsAsked(m, tx[m.tx])
                                 /\ entry'[a] = Append(entry[a], EntryOf(m, cache[a]))
                                 /\ cache'[a] = CacheOf(m, cache[a])
      BY <1>2, PostMoves DEF MovesFor
    <3> QED
      BY <3>1, <3>2 DEF LedgerBooks!Untouched
  <2> QED
    BY <2>1, <2>2 DEF LedgerBooks!Next, LedgerBooks!Post
<1> QED
  BY <1>1, <1>2

LEMMA InitImplementsBooks == Init => LedgerBooks!Init
BY DEF Init, EmptyTables, LedgerBooks!Init, Posted, NoRow

\* Whatever statements the application sends, a reader of the books sees
\* append-only journals, each entry written as its transaction posts.
THEOREM LedgerImplementsBooks == Spec => ImplementsBooks
BY InitImplementsBooks, StepImplementsBooks, TypeCorrect, PTL
   DEF Spec, ImplementsBooks, LedgerBooks!Spec

----------------------------------------------------------------------------
(* The minimum balance *)

\* FloorHeld reads the kind of an entry's transaction, so it is inductive only
\* with this: an entry's transaction has posted, and its row stays as it is.
EntriesArePosted ==
    \A a \in Account : \A i \in DOMAIN entry[a] : tx[entry[a][i].tx].status = "posted"

\* The entry a posting appends is of a posted transaction and above the floor.
LEMMA AppendedAboveFloor ==
    ASSUME TypeOK, NEW t \in Tx, Post(t), NEW a \in Account, NEW m \in Movement,
           m.account = a, m.tx \in PostedWith(t, tx), AsAsked(m, tx[m.tx]),
           NEW e, e = EntryOf(m, cache[a])
    PROVE  tx'[e.tx].status = "posted" /\ FloorUnder(a, e)'
<1> DEFINE r == tx[m.tx]
<1>1. m.tx \in Tx /\ CanPost(m.tx, tx, account)
  BY PostIsPostAll DEF TypeOK, PostAll, Enter, Movement
<1>2. r \in Row
  BY <1>1 DEF CanPost, TypeOK, TablesOK, NoRow
<1>3. tx'[m.tx] = [r EXCEPT !.status = "posted"]
  BY <1>1, PostIsPostAll DEF TypeOK, PostAll, RowsAfter
<1>4. tx'[m.tx].status = "posted" /\ tx'[m.tx].kind = r.kind
  BY <1>2, <1>3 DEF Row
<1>5. KeepsFloor(r)
  BY <1>1 DEF CanPost
<1>6. ASSUME r.kind \in {"withdrawal", "transfer_leg"}, m.direction = "debit"
      PROVE  cache[a].balance + Signed(m.direction, m.amount) >= Floor[a]
  <2>1. r.account = a /\ r.amount = m.amount /\ (r.kind = "transfer_leg" => r.leg = "debit")
    BY <1>6 DEF AsAsked, SettlesTogether
  <2>2. cache[a].balance - m.amount >= Floor[a]
    BY <1>5, <1>6, <2>1 DEF KeepsFloor
  <2>3. cache[a].balance \in Int /\ m.amount \in Nat /\ Floor[a] \in Nat
    BY FloorAssumption DEF TypeOK, TablesOK, Movement
  <2> QED
    BY <1>6, <2>2, <2>3 DEF Signed
<1> QED
  BY <1>4, <1>6 DEF FloorUnder, EntryOf

LEMMA StepKeepsFloor ==
    TypeOK /\ EntriesArePosted /\ FloorHeld /\ [Next]_vars => (EntriesArePosted /\ FloorHeld)'
<1> SUFFICES ASSUME TypeOK, EntriesArePosted, FloorHeld, [Next]_vars,
                    NEW a \in Account, NEW i \in DOMAIN entry'[a]
             PROVE  tx'[entry'[a][i].tx].status = "posted" /\ FloorUnder(a, entry[a][i])'
  BY DEF EntriesArePosted, FloorHeld
\* An entry that was there keeps its transaction.
<1>1. ASSUME i \in DOMAIN entry[a], entry'[a][i] = entry[a][i]
      PROVE  tx'[entry'[a][i].tx].status = "posted" /\ FloorUnder(a, entry[a][i])'
  <2>1. entry[a][i].tx \in Tx
    <3>1. entry[a] \in Seq(Entry) /\ i \in 1..Len(entry[a])
      BY <1>1, LenProperties DEF TypeOK, TablesOK
    <3>2. entry[a][i] \in Entry
      BY <3>1, ElementOfSeq
    <3> QED
      BY <3>2 DEF Entry
  <2>2. tx[entry[a][i].tx].status = "posted" /\ FloorUnder(a, entry[a][i])
    BY <1>1 DEF EntriesArePosted, FloorHeld
  <2>3. tx'[entry[a][i].tx] = tx[entry[a][i].tx]
    BY <2>1, <2>2, PostedRowStays
  <2> QED
    BY <1>1, <2>2, <2>3 DEF FloorUnder
<1>2. CASE entry'[a] = entry[a]
  BY <1>1, <1>2
<1>3. CASE ~ \E t \in Tx : Post(t)
  BY <1>2, <1>3, OnlyPostsMove
<1>4. ASSUME NEW t \in Tx, Post(t), NEW m \in Movement, m.account = a,
             m.tx \in PostedWith(t, tx), AsAsked(m, tx[m.tx]),
             entry'[a] = Append(entry[a], EntryOf(m, cache[a]))
      PROVE  tx'[entry'[a][i].tx].status = "posted" /\ FloorUnder(a, entry[a][i])'
  <2>1. CASE i \in DOMAIN entry[a]
    BY <1>1, <1>4, <2>1, AppendedOne DEF TypeOK
  <2>2. CASE i \notin DOMAIN entry[a]
    <3>1. entry'[a][i] = EntryOf(m, cache[a])
      BY <1>4, <2>2, AppendedOne DEF TypeOK
    <3>2. PICK e : e = EntryOf(m, cache[a])
      OBVIOUS
    <3>3. tx'[e.tx].status = "posted" /\ FloorUnder(a, e)'
      BY <1>4, <3>2, AppendedAboveFloor
    <3> QED
      BY <3>1, <3>2, <3>3 DEF FloorUnder
  <2> QED
    BY <2>1, <2>2
<1>5. ASSUME NEW t \in Tx, Post(t)
      PROVE  tx'[entry'[a][i].tx].status = "posted" /\ FloorUnder(a, entry[a][i])'
  BY <1>2, <1>4, <1>5, PostMoves DEF MovesFor
<1> QED
  BY <1>3, <1>5

\* No withdrawal and no transfer leg ever leaves an account under its type's
\* minimum balance, whatever is posted between its capture and its posting.
THEOREM FloorNeverBroken == Spec => []FloorHeld
<1>1. Init => EntriesArePosted /\ FloorHeld
  BY DEF Init, EmptyTables, EntriesArePosted, FloorHeld
<1> QED
  BY <1>1, InitTables, StepKeepsTables, StepKeepsFloor, PTL DEF Spec

----------------------------------------------------------------------------
(* Reversals *)

\* ReversalUndoes speaks of the one entry a reversal's original has, so it is
\* inductive only with this: an entry is its transaction's, by its amount on
\* its account unless it settles several, an account has one entry of a
\* transaction at most, and what was reversed had posted.
EntryOfItsRow(a, e) ==
    /\ tx[e.tx].status = "posted"
    /\ ~SettlesTogether(tx[e.tx]) => tx[e.tx].account = a /\ tx[e.tx].amount = e.amount
    /\ tx[e.tx].reverses # NoTx => tx[tx[e.tx].reverses].status = "posted"

EntriesOfTheirRows == \A a \in Account : \A i \in DOMAIN entry[a] : EntryOfItsRow(a, entry[a][i])

OneEntryEach ==
    \A a \in Account : \A i, j \in DOMAIN entry[a] : entry[a][i].tx = entry[a][j].tx => i = j

\* ReversalUndoes of the entry e that is, or comes to be, the i-th.
Undone(a, i, e) ==
    LET original == tx[e.tx].reverses
    IN  original # NoTx /\ tx[original].kind \notin ExitKind =>
            \E j \in 1 .. i - 1 :
                /\ entry[a][j].tx = original
                /\ entry[a][j].direction = Opposite(e.direction)
                /\ e.amount <= entry[a][j].amount

ReversalsInv == EntriesOfTheirRows /\ OneEntryEach /\ \A a \in Account : \A i \in DOMAIN entry[a] : Undone(a, i, entry[a][i])

\* An entry is a row of its table.
LEMMA EntryIs ==
    ASSUME TypeOK, NEW a \in Account, NEW i \in DOMAIN entry[a]
    PROVE  /\ i \in 1..Len(entry[a]) /\ Len(entry[a]) \in Nat
           /\ entry[a][i] \in Entry /\ entry[a][i].tx \in Tx /\ entry[a][i].direction \in Direction
<1>1. entry[a] \in Seq(Entry) /\ i \in 1..Len(entry[a]) /\ Len(entry[a]) \in Nat
  BY LenProperties DEF TypeOK, TablesOK
<1>2. entry[a][i] \in Entry
  BY <1>1, ElementOfSeq
<1> QED BY <1>1, <1>2 DEF Entry

\* A row of a posted transaction names another in the table, or none.
LEMMA PostedRowIs ==
    ASSUME TypeOK, NEW t \in Tx, tx[t].status = "posted"
    PROVE  tx[t] \in Row /\ WellFormed(tx[t]) /\ tx[t].reverses \in Tx \cup {NoTx}
<1>1. tx[t] # NoRow
  BY DEF NoRow
<1> QED BY <1>1 DEF TypeOK, TablesOK, Row

\* The entry of a transaction that settles nothing else is the one place it
\* moved money, and which way it did is no choice.
LEMMA OnePlace ==
    ASSUME TypeOK, ReversalsInv, NEW o \in Tx, tx[o].status = "posted", ~SettlesTogether(tx[o]),
           DirectionsOf(o) # {}
    PROVE  \E j \in DOMAIN entry[tx[o].account] :
              /\ entry[tx[o].account][j].tx = o
              /\ entry[tx[o].account][j].amount = tx[o].amount
              /\ (CHOOSE d \in DirectionsOf(o) : TRUE) = entry[tx[o].account][j].direction
<1>1. ASSUME NEW d \in DirectionsOf(o)
      PROVE  \E j \in DOMAIN entry[tx[o].account] :
                /\ entry[tx[o].account][j].tx = o
                /\ entry[tx[o].account][j].amount = tx[o].amount
                /\ entry[tx[o].account][j].direction = d
  <2>1. PICK p \in PlacesOf(o) : d = entry[p[1]][p[2]].direction
    BY DEF DirectionsOf
  <2>2. PICK b \in Account : \E j \in DOMAIN entry[b] : p = <<b, j>> /\ entry[b][j].tx = o
    BY <2>1 DEF PlacesOf
  <2>3. PICK j \in DOMAIN entry[b] : p = <<b, j>> /\ entry[b][j].tx = o
    BY <2>2
  <2>4. EntryOfItsRow(b, entry[b][j])
    BY DEF ReversalsInv, EntriesOfTheirRows
  <2>5. b = tx[o].account /\ entry[b][j].amount = tx[o].amount
    BY <2>3, <2>4 DEF EntryOfItsRow
  <2> QED BY <2>1, <2>3, <2>5
<1>2. PICK d : d = CHOOSE x \in DirectionsOf(o) : TRUE
  OBVIOUS
<1>3. d \in DirectionsOf(o)
  BY <1>2
<1> QED BY <1>1, <1>2, <1>3

\* The entry a posting appends undoes what it reverses, if it reverses.
LEMMA AppendedUndoes ==
    ASSUME TypeOK, ReversalsInv, NEW t \in Tx, Post(t), NEW a \in Account, NEW m \in Movement,
           m.account = a, m.tx \in PostedWith(t, tx), AsAsked(m, tx[m.tx]),
           NEW e, e = EntryOf(m, cache[a])
    PROVE  /\ e.tx \in Tx /\ tx[e.tx].status # "posted"
           /\ tx'[e.tx].status = "posted" /\ tx'[e.tx].reverses = tx[e.tx].reverses
           /\ ~SettlesTogether(tx'[e.tx]) => tx'[e.tx].account = a /\ tx'[e.tx].amount = e.amount
           /\ tx[e.tx].reverses # NoTx =>
                /\ tx[e.tx].reverses \in Tx /\ tx[tx[e.tx].reverses].status = "posted"
                /\ tx[tx[e.tx].reverses].kind \notin ExitKind =>
                     \E j \in DOMAIN entry[a] :
                        /\ entry[a][j].tx = tx[e.tx].reverses
                        /\ entry[a][j].direction = Opposite(e.direction)
                        /\ e.amount <= entry[a][j].amount
<1> DEFINE r == tx[m.tx]
<1>1. m.tx \in Tx /\ CanPost(m.tx, tx, account)
  BY PostIsPostAll DEF TypeOK, PostAll, Enter, Movement
<1>2. r \in Row /\ WellFormed(r)
  BY <1>1 DEF CanPost, TypeOK, TablesOK, NoRow
<1>3. tx'[m.tx] = [r EXCEPT !.status = "posted"]
  BY <1>1, PostIsPostAll DEF TypeOK, PostAll, RowsAfter
<1>4. /\ e.tx = m.tx /\ e.amount = m.amount /\ e.direction = m.direction
      /\ tx'[m.tx].status = "posted" /\ tx'[m.tx].reverses = r.reverses /\ tx'[m.tx].account = r.account
      /\ tx'[m.tx].amount = r.amount /\ tx'[m.tx].kind = r.kind /\ tx'[m.tx].claimant = r.claimant
  BY <1>2, <1>3 DEF Row, EntryOf
<1>5. r.status # "posted"
  BY <1>1 DEF CanPost
<1>6. ~SettlesTogether(tx'[m.tx]) => r.account = a /\ r.amount = m.amount
  BY <1>4 DEF AsAsked, SettlesTogether
<1>7. ASSUME r.reverses # NoTx
      PROVE  /\ r.reverses \in Tx /\ tx[r.reverses].status = "posted"
             /\ tx[r.reverses].kind \notin ExitKind =>
                  \E j \in DOMAIN entry[a] :
                     /\ entry[a][j].tx = r.reverses
                     /\ entry[a][j].direction = Opposite(m.direction)
                     /\ m.amount <= entry[a][j].amount
  <2>1. r.kind = "reversal" /\ r.reverses \in Tx
    BY <1>2, <1>7 DEF WellFormed, Row
  <2>2. PICK o \in Tx : o = r.reverses
    BY <2>1
  <2>3. /\ tx[o].status = "posted" /\ tx[o].account = r.account /\ r.amount <= tx[o].amount
        /\ DirectionsOf(o) # {}
    BY <1>1, <2>1, <2>2 DEF CanPost, Undoes
  <2>4. /\ a = r.account /\ m.amount = r.amount
        /\ m.direction = Opposite(CHOOSE d \in DirectionsOf(o) : TRUE)
    BY <2>1, <2>2 DEF AsAsked, SettlesTogether
  <2>5. ASSUME tx[o].kind \notin ExitKind
        PROVE  \E j \in DOMAIN entry[a] :
                     /\ entry[a][j].tx = o
                     /\ entry[a][j].direction = Opposite(m.direction)
                     /\ m.amount <= entry[a][j].amount
    <3>1. ~SettlesTogether(tx[o])
      BY <2>5 DEF SettlesTogether, ExitKind
    <3>2. PICK j \in DOMAIN entry[a] :
              /\ entry[a][j].tx = o /\ entry[a][j].amount = tx[o].amount
              /\ (CHOOSE d \in DirectionsOf(o) : TRUE) = entry[a][j].direction
      BY <2>3, <2>4, <3>1, OnePlace
    <3>3. entry[a][j].direction \in Direction
      BY EntryIs
    <3> QED BY <2>3, <2>4, <3>2, <3>3 DEF Opposite, Direction
  <2> QED BY <2>1, <2>2, <2>3, <2>5
<1> QED BY <1>1, <1>4, <1>5, <1>6, <1>7

\* An entry that was there stays its row's, and what it undid stays undone.
LEMMA EntryStaysUndone ==
    ASSUME TypeOK, ReversalsInv, [Next]_vars, NEW a \in Account, NEW i \in DOMAIN entry[a],
           \A j \in DOMAIN entry[a] : entry'[a][j] = entry[a][j]
    PROVE  EntryOfItsRow(a, entry[a][i])' /\ Undone(a, i, entry[a][i])'
<1>1. PICK e : e = entry[a][i]
  OBVIOUS
<1>2. entry'[a][i] = e /\ e.tx \in Tx /\ EntryOfItsRow(a, e) /\ Undone(a, i, e)
  BY <1>1, EntryIs DEF ReversalsInv, EntriesOfTheirRows
<1>3. tx'[e.tx] = tx[e.tx] /\ tx[e.tx].reverses \in Tx \cup {NoTx}
  BY <1>2, PostedRowStays, PostedRowIs DEF EntryOfItsRow
<1>4. tx[e.tx].reverses # NoTx => tx'[tx[e.tx].reverses] = tx[tx[e.tx].reverses]
  BY <1>2, <1>3, PostedRowStays DEF EntryOfItsRow
<1>5. EntryOfItsRow(a, entry[a][i])'
  BY <1>2, <1>3, <1>4 DEF EntryOfItsRow, SettlesTogether
<1>6. \A j \in 1 .. i - 1 : entry'[a][j] = entry[a][j]
  <2>1. DOMAIN entry[a] = 1..Len(entry[a]) /\ i \in 1..Len(entry[a]) /\ Len(entry[a]) \in Nat
    BY EntryIs, LenProperties DEF TypeOK, TablesOK
  <2> QED BY <2>1
<1>7. Undone(a, i, entry[a][i])'
  BY <1>2, <1>3, <1>4, <1>6 DEF Undone
<1> QED BY <1>5, <1>7

LEMMA StepKeepsReversals == TypeOK /\ ReversalsInv /\ [Next]_vars => ReversalsInv'
<1> SUFFICES ASSUME TypeOK, ReversalsInv, [Next]_vars, NEW a \in Account
             PROVE  /\ \A i \in DOMAIN entry'[a] : EntryOfItsRow(a, entry[a][i])' /\ Undone(a, i, entry[a][i])'
                    /\ \A i, j \in DOMAIN entry'[a] : entry'[a][i].tx = entry'[a][j].tx => i = j
  BY DEF ReversalsInv, EntriesOfTheirRows, OneEntryEach
<1>1. CASE entry'[a] = entry[a]
  BY <1>1, EntryStaysUndone DEF ReversalsInv, OneEntryEach
<1>2. CASE ~ \E t \in Tx : Post(t)
  BY <1>1, <1>2, OnlyPostsMove
<1>3. ASSUME NEW t \in Tx, Post(t), NEW m \in Movement, m.account = a,
             m.tx \in PostedWith(t, tx), AsAsked(m, tx[m.tx]),
             entry'[a] = Append(entry[a], EntryOf(m, cache[a]))
      PROVE  /\ \A i \in DOMAIN entry'[a] : EntryOfItsRow(a, entry[a][i])' /\ Undone(a, i, entry[a][i])'
             /\ \A i, j \in DOMAIN entry'[a] : entry'[a][i].tx = entry'[a][j].tx => i = j
  <2>1. PICK e : e = EntryOf(m, cache[a])
    OBVIOUS
  <2>2. PICK n \in Nat : n = Len(entry[a])
    BY LenProperties DEF TypeOK, TablesOK
  <2>3. /\ \A i \in 1..n : entry'[a][i] = entry[a][i]
        /\ DOMAIN entry[a] = 1..n /\ DOMAIN entry'[a] = 1..(n + 1)
        /\ entry'[a][n + 1] = e
    BY <1>3, <2>1, <2>2, AppendedOne DEF TypeOK
  <2>4. /\ e.tx \in Tx /\ tx[e.tx].status # "posted"
        /\ tx'[e.tx].status = "posted" /\ tx'[e.tx].reverses = tx[e.tx].reverses
        /\ ~SettlesTogether(tx'[e.tx]) => tx'[e.tx].account = a /\ tx'[e.tx].amount = e.amount
        /\ tx[e.tx].reverses # NoTx =>
             /\ tx[e.tx].reverses \in Tx /\ tx[tx[e.tx].reverses].status = "posted"
             /\ tx[tx[e.tx].reverses].kind \notin ExitKind =>
                  \E j \in DOMAIN entry[a] :
                     /\ entry[a][j].tx = tx[e.tx].reverses
                     /\ entry[a][j].direction = Opposite(e.direction)
                     /\ e.amount <= entry[a][j].amount
    BY <1>3, <2>1, AppendedUndoes
  <2>5. tx[e.tx].reverses # NoTx => tx'[tx[e.tx].reverses] = tx[tx[e.tx].reverses]
    BY <2>4, PostedRowStays
  <2>6. EntryOfItsRow(a, entry[a][n + 1])'
    BY <2>3, <2>4, <2>5 DEF EntryOfItsRow
  <2>7. Undone(a, n + 1, entry[a][n + 1])'
    <3>1. 1..((n + 1) - 1) = 1..n
      OBVIOUS
    <3> QED BY <2>3, <2>4, <2>5, <3>1 DEF Undone
  <2>8. \A i \in 1..n : EntryOfItsRow(a, entry[a][i])' /\ Undone(a, i, entry[a][i])'
    BY <2>3, EntryStaysUndone
  <2>9. \A i \in 1..n : entry[a][i].tx # e.tx
    BY <2>3, <2>4 DEF ReversalsInv, EntriesOfTheirRows, EntryOfItsRow
  <2>10. \A i \in 1..(n + 1) : i \in 1..n \/ i = n + 1
    OBVIOUS
  <2>11. \A i \in DOMAIN entry'[a] : EntryOfItsRow(a, entry[a][i])' /\ Undone(a, i, entry[a][i])'
    BY <2>3, <2>6, <2>7, <2>8, <2>10
  <2>12. \A i, j \in DOMAIN entry'[a] : entry'[a][i].tx = entry'[a][j].tx => i = j
    BY <2>3, <2>9, <2>10 DEF ReversalsInv, OneEntryEach
  <2> QED BY <2>11, <2>12
<1>4. ASSUME NEW t \in Tx, Post(t)
      PROVE  /\ \A i \in DOMAIN entry'[a] : EntryOfItsRow(a, entry[a][i])' /\ Undone(a, i, entry[a][i])'
             /\ \A i, j \in DOMAIN entry'[a] : entry'[a][i].tx = entry'[a][j].tx => i = j
  BY <1>1, <1>3, <1>4, PostMoves DEF MovesFor
<1> QED BY <1>2, <1>4

\* However many reversals of reversals, corrections and postings there are, a
\* reversal moved the other way from its original, on the same account and by
\* no more: the entry post_transaction looks up is the only one there is.
THEOREM ReversalsUndo == Spec => []ReversalUndoes
<1>1. Init => ReversalsInv
  BY DEF Init, EmptyTables, ReversalsInv, EntriesOfTheirRows, OneEntryEach
<1>2. ReversalsInv => ReversalUndoes
  BY DEF ReversalsInv, ReversalUndoes, Undone
<1> QED
  BY <1>1, <1>2, InitTables, StepKeepsTables, StepKeepsReversals, PTL DEF Spec
=============================================================================
