---------------------------- MODULE ReviewProofs ----------------------------
(***************************************************************************)
(* What holds of every transaction between its capture and its posting,    *)
(* for any officers, chains, amounts and requests under way together:      *)
(* the three people who take part, the legs of a transfer, and the         *)
(* accounts that exits close.                                              *)
(*                                                                         *)
(* A handler's transaction updates rows and may then post them.  So the    *)
(* invariant's parts take the tables they speak of as parameters: they are *)
(* shown of the rows as the updates leave them, then of the rows as        *)
(* post_transaction leaves those.                                          *)
(***************************************************************************)
EXTENDS Exits, SequenceTheorems, FiniteSetTheorems, TLAPS

----------------------------------------------------------------------------
(* The parts of the invariant *)

\* A row on the table: a leg names its transfer, a reversal its original, and
\* nothing else does; a claim has its claimant.
IsRow(r) ==
    /\ r = [kind |-> r.kind, status |-> r.status, account |-> r.account, amount |-> r.amount,
            leg |-> r.leg, transfer |-> r.transfer, reverses |-> r.reverses,
            carried |-> r.carried, claimant |-> r.claimant, benefit |-> r.benefit]
    /\ r.status \in Status
    /\ IF r.kind = "transfer_leg" THEN r.leg \in Direction /\ r.transfer \in Transfer
       ELSE r.leg = "none" /\ r.transfer = NoTransfer
    /\ (r.kind = "reversal") <=> (r.reverses # NoTx)
    /\ r.kind = "demise" => r.claimant

RowsIn(rows) ==
    /\ rows = [t \in Tx |-> rows[t]]
    /\ \A t \in Tx : rows[t] = NoRow \/ IsRow(rows[t])

WorkIn(chains, transfers) ==
    chains = [t \in Tx |-> chains[t]] /\ transfers = [x \in Transfer |-> transfers[x]]

\* The three people of ThreePeople.
ThreeOn(t, rows, trail) ==
    \E c, a, p \in Officer :
        /\ <<c, "captured", t>> \in trail /\ <<a, "approved", t>> \in trail /\ <<p, "posted", t>> \in trail
        /\ c # a /\ c # p
        /\ a # p \/ (rows[t].kind = "deposit" /\ c = App)

\* Who has done what to a transaction: nobody, before it is there; its captor
\* never approved it; one that goes to a chain was captured; one that reads
\* approved was.
PeopleOn(t, rows, chains, trail) ==
    /\ rows[t] = NoRow => /\ chains[t] = NoChain
                          /\ \A o : <<o, "captured", t>> \notin trail /\ <<o, "approved", t>> \notin trail
    /\ chains[t] # NoChain => /\ rows[t].leg # "credit"
                              /\ \E c \in Officer : <<c, "captured", t>> \in trail
    /\ \A o : <<o, "approved", t>> \in trail => <<o, "captured", t>> \notin trail
    /\ rows[t].status = "approved" => \E a \in Officer : <<a, "approved", t>> \in trail
    /\ rows[t].status = "posted" /\ chains[t] # NoChain => ThreeOn(t, rows, trail)

PeopleIn(rows, chains, trail) == \A t \in Tx : PeopleOn(t, rows, chains, trail)

\* The legs of transfers.
LegIn(t, rows) == rows[t] # NoRow /\ rows[t].kind = "transfer_leg"

Debit(t, rows) == LegIn(t, rows) /\ rows[t].leg = "debit"

Credits(d, rows) ==
    {c \in Tx : LegIn(c, rows) /\ rows[c].leg = "credit" /\ rows[c].transfer = rows[d].transfer}

\* A credit leg waits for its debit leg, has the same amount, and is posted
\* or rejected with it.
PairIn(d, rows, trail) ==
    \A c \in Credits(d, rows) :
        /\ rows[c].amount = rows[d].amount
        /\ rows[c].status \in {"submitted", "posted", "rejected"}
        /\ rows[c].status = "posted" => rows[d].status = "posted"
        /\ rows[c].status = "submitted" => rows[d].status # "posted"
        /\ rows[c].status = "rejected" => \E o \in Officer : <<o, "rejected", d>> \in trail

\* A transfer has one leg each way at most, from one capture, a credit leg
\* none without its debit leg.
TransfersIn(rows) ==
    /\ \A t \in Tx : LegIn(t, rows) =>
           \E form \in Forms : t \in DOMAIN form /\ form[t].transfer = rows[t].transfer
    /\ \A t, u \in Tx :
           LegIn(t, rows) /\ LegIn(u, rows) /\ rows[t].transfer = rows[u].transfer /\ rows[t].leg = rows[u].leg
               => t = u
    /\ \A c \in Tx : LegIn(c, rows) /\ rows[c].leg = "credit" =>
           \E d \in Tx : Debit(d, rows) /\ rows[d].transfer = rows[c].transfer

PairsIn(rows, trail) == \A d \in Tx : Debit(d, rows) => PairIn(d, rows, trail)

MirrorsIn(rows, transfers) == \A d \in Tx : Debit(d, rows) => transfers[rows[d].transfer] = rows[d].status

\* An entry is of a transaction that is there, and of a leg its way.
EntriesIn(entries, rows) ==
    /\ entries = [a \in Account |-> entries[a]]
    /\ \A a \in Account :
           /\ \E T : entries[a] \in Seq(T)
           /\ \A i \in DOMAIN entries[a] :
                  /\ entries[a][i].tx \in Tx /\ rows[entries[a][i].tx] # NoRow
                  /\ LegIn(entries[a][i].tx, rows) => entries[a][i].direction = rows[entries[a][i].tx].leg

----------------------------------------------------------------------------
(* Rows go on *)

\* A row that goes on keeps its kind, its leg, its transfer and its original.
SameRow(r, s) == r.kind = s.kind /\ r.leg = s.leg /\ r.transfer = s.transfer /\ r.reverses = s.reverses

Onward(rows, later) ==
    \A t \in Tx : rows[t] # NoRow => later[t] # NoRow /\ SameRow(later[t], rows[t])

Becomes(r, s, status) == IsRow(r) /\ r.status = status /\ SameRow(r, s) /\ r.amount = s.amount

\* What is posted stays as it is, and a rejected credit leg stays rejected.
Firm(rows, later) ==
    \A t \in Tx :
        /\ rows[t].status = "posted" => later[t] = rows[t]
        /\ LegIn(t, rows) /\ rows[t].leg = "credit" /\ rows[t].status = "rejected" =>
               later[t].status = "rejected"

\* The legs of a transfer come together.
LegsCome(rows, later) ==
    \A t, u \in Tx :
        rows[t] = NoRow /\ LegIn(t, later) /\ LegIn(u, later) /\ later[t].transfer = later[u].transfer =>
            rows[u] = NoRow

\* What comes is no reversal.
NoneReversed(rows, later) ==
    \A t \in Tx : rows[t] = NoRow /\ later[t] # NoRow => later[t].kind # "reversal"

Steady(rows, later) == Firm(rows, later) /\ LegsCome(rows, later) /\ NoneReversed(rows, later)

LEMMA RowIsThere == \A r : r = NoRow \/ IsRow(r) => (r # NoRow <=> IsRow(r)) /\ (r # NoRow <=> r.status \in Status)
BY DEF IsRow, Status, NoRow

LEMMA StatusWritten ==
    ASSUME NEW r, IsRow(r), NEW s \in Status
    PROVE  Becomes([r EXCEPT !.status = s], r, s)
BY DEF IsRow, Becomes, SameRow

LEMMA ThreeStay ==
    ASSUME NEW t, NEW rows, NEW trail, ThreeOn(t, rows, trail),
           NEW later, NEW more, later[t].kind = rows[t].kind, trail \subseteq more
    PROVE  ThreeOn(t, later, more)
BY DEF ThreeOn

\* Rows that go on, and where none comes, are steady.
LEMMA NoneNew ==
    ASSUME NEW rows, NEW later, Firm(rows, later), \A t \in Tx : rows[t] = NoRow => later[t] = NoRow
    PROVE  Steady(rows, later)
BY DEF Steady, LegsCome, NoneReversed, LegIn

LEMMA SteadyOn ==
    ASSUME NEW rows, NEW later, NEW last, Onward(rows, later), Onward(later, last),
           Steady(rows, later), Steady(later, last)
    PROVE  Steady(rows, last)
<1>1. Firm(rows, last)
  BY DEF Steady, Firm, Onward, SameRow, LegIn
<1>2. ASSUME NEW t \in Tx, NEW u \in Tx, rows[t] = NoRow, LegIn(t, last), LegIn(u, last),
             last[t].transfer = last[u].transfer, rows[u] # NoRow
      PROVE  FALSE
  <2>1. later[u] # NoRow /\ SameRow(last[u], later[u]) /\ LegIn(u, later)
    BY <1>2 DEF Onward, SameRow, LegIn
  <2>2. later[t] # NoRow
    BY <1>2, <2>1 DEF Steady, LegsCome
  <2>3. SameRow(last[t], later[t]) /\ LegIn(t, later)
    BY <1>2, <2>2 DEF Onward, SameRow, LegIn
  <2>4. later[t].transfer = later[u].transfer
    BY <1>2, <2>1, <2>3 DEF SameRow
  <2> QED
    BY <1>2, <2>1, <2>3, <2>4 DEF Steady, LegsCome
<1>3. ASSUME NEW t \in Tx, rows[t] = NoRow, last[t] # NoRow
      PROVE  last[t].kind # "reversal"
  <2>1. CASE later[t] = NoRow
    BY <1>3, <2>1 DEF Steady, NoneReversed
  <2>2. CASE later[t] # NoRow
    BY <1>3, <2>2 DEF Steady, NoneReversed, Onward, SameRow
  <2> QED
    BY <2>1, <2>2
<1> QED
  BY <1>1, <1>2, <1>3 DEF Steady, LegsCome, NoneReversed

----------------------------------------------------------------------------
(* post_transaction's entries *)

LEMMA WiderSeq ==
    ASSUME NEW T, NEW s \in Seq(T), NEW U, T \subseteq U
    PROVE  s \in Seq(U)
<1>1. Len(s) \in Nat /\ s \in [1..Len(s) -> T]
  BY LenProperties
<1>2. s \in [1..Len(s) -> U]
  BY <1>1
<1> QED
  BY <1>1, <1>2, IsASeq

\* Every movement is of a transaction being posted, and of a leg its way.
LEMMA MovementsOfLegs ==
    ASSUME NEW t, NEW r, NEW accts, NEW m \in Movements(t, r, accts)
    PROVE  m.tx = t /\ (r.kind = "transfer_leg" => m.direction = r.leg)
<1>1. r.kind = "transfer_leg" => ~SettlesTogether(r) /\ DirectionOf(r) = r.leg
  BY DEF SettlesTogether, DirectionOf
<1> QED
  BY <1>1 DEF Movements

LEMMA EntersWell ==
    ASSUME NEW rows, NEW later, NEW accts, NEW S \in SUBSET Tx,
           EntriesIn(entry, rows), Onward(rows, later), Enter(S, rows, accts),
           \A t \in S : rows[t] # NoRow
    PROVE  EntriesIn(entry', later)
<1> DEFINE M == UNION {Movements(t, rows[t], accts) : t \in S}
<1>1. \A m \in M : m.tx \in S /\ (rows[m.tx].kind = "transfer_leg" => m.direction = rows[m.tx].leg)
  BY MovementsOfLegs
<1>2. ASSUME NEW a \in Account
      PROVE  \/ entry'[a] = entry[a]
             \/ \E e : /\ entry'[a] = Append(entry[a], e)
                       /\ e.tx \in S /\ (rows[e.tx].kind = "transfer_leg" => e.direction = rows[e.tx].leg)
  <2>1. entry'[a] = IF a \in Moved(M) THEN Append(entry[a], EntryAfter(a, M)) ELSE entry[a]
    BY DEF Enter
  <2>2. a \in Moved(M) => MovedOn(a, M) \in M
    BY DEF Moved, MovedOn
  <2>3. EntryAfter(a, M).tx = MovedOn(a, M).tx /\ EntryAfter(a, M).direction = MovedOn(a, M).direction
    BY DEF EntryAfter
  <2> HIDE DEF M
  <2> QED
    BY <1>1, <2>1, <2>2, <2>3
<1>3. entry' = [a \in Account |-> entry'[a]]
  BY DEF Enter
<1>4. ASSUME NEW a \in Account
      PROVE  /\ \E T : entry'[a] \in Seq(T)
             /\ \A i \in DOMAIN entry'[a] :
                  /\ entry'[a][i].tx \in Tx /\ later[entry'[a][i].tx] # NoRow
                  /\ LegIn(entry'[a][i].tx, later) => entry'[a][i].direction = later[entry'[a][i].tx].leg
  <2>1. \A i \in DOMAIN entry[a] :
            /\ entry[a][i].tx \in Tx /\ later[entry[a][i].tx] # NoRow
            /\ LegIn(entry[a][i].tx, later) => entry[a][i].direction = later[entry[a][i].tx].leg
    BY DEF EntriesIn, Onward, SameRow, LegIn
  <2>2. \E T : entry[a] \in Seq(T)
    BY DEF EntriesIn
  <2>3. CASE entry'[a] = entry[a]
    BY <2>1, <2>2, <2>3
  <2>4. ASSUME NEW e, entry'[a] = Append(entry[a], e), e.tx \in S,
               rows[e.tx].kind = "transfer_leg" => e.direction = rows[e.tx].leg
        PROVE  /\ \E T : entry'[a] \in Seq(T)
               /\ \A i \in DOMAIN entry'[a] :
                    /\ entry'[a][i].tx \in Tx /\ later[entry'[a][i].tx] # NoRow
                    /\ LegIn(entry'[a][i].tx, later) => entry'[a][i].direction = later[entry'[a][i].tx].leg
    <3>1. e.tx \in Tx /\ later[e.tx] # NoRow /\ (LegIn(e.tx, later) => e.direction = later[e.tx].leg)
      BY <2>4 DEF Onward, SameRow, LegIn
    <3>2. PICK T : entry[a] \in Seq(T)
      BY <2>2
    <3>5. PICK U : U = T \cup {e}
      OBVIOUS
    <3>6. entry[a] \in Seq(U)
      BY <3>2, <3>5, WiderSeq
    <3>7. PICK n \in Nat : n = Len(entry[a])
      BY <3>6, LenProperties
    <3>3. /\ \E V : entry'[a] \in Seq(V)
          /\ DOMAIN entry[a] = 1..n /\ DOMAIN entry'[a] = 1..(n + 1)
          /\ \A i \in 1..n : entry'[a][i] = entry[a][i]
          /\ entry'[a][n + 1] = e
      BY <2>4, <3>5, <3>6, <3>7, AppendProperties, LenProperties
    <3>4. \A i \in 1..(n + 1) : i \in 1..n \/ i = n + 1
      BY <3>7
    <3> QED
      BY <2>1, <3>1, <3>3, <3>4
  <2> QED
    BY <1>2, <2>3, <2>4
<1> QED
  BY <1>3, <1>4 DEF EntriesIn

LEMMA EntriesStay ==
    ASSUME NEW rows, NEW later, EntriesIn(entry, rows), Onward(rows, later)
    PROVE  EntriesIn(entry, later)
BY DEF EntriesIn, Onward, SameRow, LegIn

----------------------------------------------------------------------------
(* Legs go on *)

LEMMA LegsStay ==
    ASSUME NEW rows, NEW later, TransfersIn(rows),
           \A t \in Tx : LegIn(t, later) <=> LegIn(t, rows),
           \A t \in Tx : LegIn(t, rows) => later[t].leg = rows[t].leg /\ later[t].transfer = rows[t].transfer
    PROVE  /\ TransfersIn(later)
           /\ \A d \in Tx : /\ Debit(d, later) <=> Debit(d, rows)
                            /\ Debit(d, rows) => Credits(d, later) = Credits(d, rows)
<1>1. ASSUME NEW c \in Tx, LegIn(c, later), later[c].leg = "credit"
      PROVE  \E d \in Tx : Debit(d, later) /\ later[d].transfer = later[c].transfer
  <2>1. PICK d \in Tx : Debit(d, rows) /\ rows[d].transfer = rows[c].transfer
    BY <1>1 DEF TransfersIn
  <2> QED
    BY <1>1, <2>1 DEF Debit
<1>2. \A t \in Tx : LegIn(t, later) => \E form \in Forms : t \in DOMAIN form /\ form[t].transfer = later[t].transfer
  BY DEF TransfersIn
<1>3. \A t, u \in Tx :
          LegIn(t, later) /\ LegIn(u, later) /\ later[t].transfer = later[u].transfer /\ later[t].leg = later[u].leg
              => t = u
  BY DEF TransfersIn
<1>4. \A d \in Tx : /\ Debit(d, later) <=> Debit(d, rows)
                    /\ Debit(d, rows) => Credits(d, later) = Credits(d, rows)
  BY DEF Debit, Credits
<1> QED
  BY <1>1, <1>2, <1>3, <1>4 DEF TransfersIn

----------------------------------------------------------------------------
(* What a posting makes of the rows *)

\* The rows it posts were on their way; those a death cancels were drafts or
\* returned; the transfer of what it posts is posted with it.
LEMMA PostEffect ==
    ASSUME NEW rows, RowsIn(rows), NEW head \in Tx, NEW accts, NEW steps,
           PostAndEnd(head, rows, accts, steps), NEW S, S = PostedWith(head, rows)
    PROVE  /\ S \in SUBSET Tx /\ head \in S
           /\ \A t \in S : /\ IsRow(rows[t]) /\ rows[t].status \in {"submitted", "approved"}
                           /\ Becomes(tx'[t], rows[t], "posted")
           /\ Enter(S, rows, accts)
           /\ tx' = [t \in Tx |-> tx'[t]]
           /\ \E G \in SUBSET (Tx \ S) :
                /\ \A t \in G : /\ IsRow(rows[t]) /\ rows[t].status \in {"draft", "returned"}
                                /\ Becomes(tx'[t], rows[t], "cancelled")
                /\ \A t \in Tx \ (S \cup G) : tx'[t] = rows[t]
                /\ transfer' = [x \in Transfer |->
                      IF \E t \in G : rows[t].transfer = x THEN "cancelled"
                      ELSE IF rows[head].transfer = x THEN "posted" ELSE transfer[x]]
<1>1. S \in SUBSET Tx /\ head \in S
  BY DEF PostedWith, CreditLegOf
<1>2. Enter(S, rows, accts)
  BY DEF PostAndEnd
<1>3. \A t \in S : IsRow(rows[t]) /\ rows[t].status \in {"submitted", "approved"}
  BY <1>1, <1>2 DEF Enter, CanPost, RowsIn, NoRow
<1>4. PICK after : after = RowsAfter(S, rows)
  OBVIOUS
<1>5. \A t \in Tx : after[t] = IF t \in S THEN [rows[t] EXCEPT !.status = "posted"] ELSE rows[t]
  BY <1>4 DEF RowsAfter
<1>6. \A t \in S : Becomes(after[t], rows[t], "posted")
  BY <1>1, <1>3, <1>5, StatusWritten DEF Status
<1>7. PICK G : G = CancelledBy(rows[head], after, Marked(rows[head], AccountsAfter(S, rows, accts), HoldersAfter(S, rows)))
  OBVIOUS
<1>8. G \in SUBSET Tx /\ \A t \in G : after[t].status \in {"draft", "returned"}
  BY <1>7 DEF CancelledBy, DraftsOf
<1>9. G \in SUBSET (Tx \ S) /\ \A t \in G : after[t] = rows[t] /\ rows[t].status \in {"draft", "returned"}
  BY <1>5, <1>6, <1>8 DEF Becomes
<1>10. \A t \in G : IsRow(rows[t])
  BY <1>9 DEF RowsIn, NoRow
<1>11. /\ tx' = [t \in Tx |-> IF t \in G THEN [rows[t] EXCEPT !.status = "cancelled"] ELSE after[t]]
       /\ transfer' = [x \in Transfer |->
                      IF \E t \in G : rows[t].transfer = x THEN "cancelled"
                      ELSE IF rows[head].transfer = x THEN "posted" ELSE transfer[x]]
  BY <1>4, <1>7 DEF PostAndEnd
<1>12. \A t \in G : Becomes(tx'[t], rows[t], "cancelled")
  BY <1>9, <1>10, <1>11, StatusWritten DEF Status
<1>13. \A t \in S : Becomes(tx'[t], rows[t], "posted")
  BY <1>1, <1>6, <1>9, <1>11
<1>14. \A t \in Tx \ (S \cup G) : tx'[t] = rows[t]
  BY <1>5, <1>11
<1>15. tx' = [t \in Tx |-> tx'[t]]
  BY <1>11
<1> QED
  BY <1>1, <1>2, <1>3, <1>9, <1>10, <1>11, <1>12, <1>13, <1>14, <1>15

\* Everything but who posts it, of the rows a posting leaves.
LEMMA PostKeepsRows ==
    ASSUME NEW rows, RowsIn(rows), NEW head \in Tx, NEW accts, NEW steps,
           PostAndEnd(head, rows, accts, steps), EntriesIn(entry, rows)
    PROVE  /\ RowsIn(tx') /\ Onward(rows, tx') /\ Steady(rows, tx') /\ EntriesIn(entry', tx')
           /\ \A t \in Tx : rows[t] = NoRow => tx'[t] = NoRow
           /\ \A t \in Tx : rows[t].status = "posted" => tx'[t] = rows[t]
           /\ \A t \in Tx : tx'[t].status = "approved" => rows[t].status = "approved"
           /\ \A t \in Tx : tx'[t].status = "posted" /\ rows[t].status # "posted" => t \in PostedWith(head, rows)
<1>1. PICK S : S = PostedWith(head, rows)
  OBVIOUS
<1>2. PICK G \in SUBSET (Tx \ S) :
        /\ \A t \in G : /\ IsRow(rows[t]) /\ rows[t].status \in {"draft", "returned"}
                        /\ Becomes(tx'[t], rows[t], "cancelled")
        /\ \A t \in Tx \ (S \cup G) : tx'[t] = rows[t]
        /\ transfer' = [x \in Transfer |->
              IF \E t \in G : rows[t].transfer = x THEN "cancelled"
              ELSE IF rows[head].transfer = x THEN "posted" ELSE transfer[x]]
  BY <1>1, PostEffect
<1>3. /\ S \in SUBSET Tx /\ head \in S
      /\ \A t \in S : /\ IsRow(rows[t]) /\ rows[t].status \in {"submitted", "approved"}
                      /\ Becomes(tx'[t], rows[t], "posted")
      /\ Enter(S, rows, accts)
      /\ tx' = [t \in Tx |-> tx'[t]]
  BY <1>1, PostEffect
<1>4. \A r : IsRow(r) => r # NoRow
  BY RowIsThere
<1>5. RowsIn(tx')
  BY <1>2, <1>3 DEF RowsIn, Becomes
<1>6. Onward(rows, tx')
  BY <1>2, <1>3, <1>4 DEF Onward, Becomes, SameRow
<1>7. EntriesIn(entry', tx')
  BY <1>3, <1>4, <1>6, EntersWell
<1>8. \A t \in Tx : (rows[t] = NoRow => tx'[t] = NoRow) /\ (rows[t].status = "posted" => tx'[t] = rows[t])
  BY <1>2, <1>3, <1>4
<1>9. \A t \in Tx : /\ tx'[t].status = "approved" => rows[t].status = "approved"
                    /\ (tx'[t].status = "posted" /\ rows[t].status # "posted") => t \in PostedWith(head, rows)
  BY <1>1, <1>2, <1>3 DEF Becomes
<1>10. \A t \in Tx : rows[t] = NoRow => tx'[t] = NoRow
  BY <1>8
<1>11. \A t \in Tx : rows[t].status = "posted" => tx'[t] = rows[t]
  BY <1>8
<1>12. \A t \in Tx : tx'[t].status = "approved" => rows[t].status = "approved"
  BY <1>9
<1>13. \A t \in Tx : tx'[t].status = "posted" /\ rows[t].status # "posted" => t \in PostedWith(head, rows)
  BY <1>9
<1>14. \A t \in Tx : rows[t].status = "rejected" => tx'[t] = rows[t]
  BY <1>2, <1>3
<1>15. Steady(rows, tx')
  BY <1>10, <1>11, <1>14, NoneNew DEF Firm
<1> QED
  BY <1>5, <1>6, <1>7, <1>10, <1>11, <1>12, <1>13, <1>15

\* The legs, of the rows a posting leaves: both legs of what it posts, and a
\* death cancels no credit leg.
LEMMA PostKeepsLegs ==
    ASSUME NEW rows, RowsIn(rows), NEW head \in Tx, NEW accts, NEW steps, NEW trail,
           PostAndEnd(head, rows, accts, steps), rows[head].leg # "credit",
           TransfersIn(rows), PairsIn(rows, trail), trail \subseteq audit',
           \A d \in Tx : Debit(d, rows) /\ d # head => transfer[rows[d].transfer] = rows[d].status
    PROVE  TransfersIn(tx') /\ PairsIn(tx', audit') /\ MirrorsIn(tx', transfer')
<1>1. PICK S : S = PostedWith(head, rows)
  OBVIOUS
<1>2. PICK G \in SUBSET (Tx \ S) :
        /\ \A t \in G : /\ IsRow(rows[t]) /\ rows[t].status \in {"draft", "returned"}
                        /\ Becomes(tx'[t], rows[t], "cancelled")
        /\ \A t \in Tx \ (S \cup G) : tx'[t] = rows[t]
        /\ transfer' = [x \in Transfer |->
              IF \E t \in G : rows[t].transfer = x THEN "cancelled"
              ELSE IF rows[head].transfer = x THEN "posted" ELSE transfer[x]]
  BY <1>1, PostEffect
<1>3. /\ S \in SUBSET Tx /\ head \in S
      /\ \A t \in S : /\ IsRow(rows[t]) /\ rows[t].status \in {"submitted", "approved"}
                      /\ Becomes(tx'[t], rows[t], "posted")
  BY <1>1, PostEffect
<1>4. \A r : IsRow(r) => r # NoRow
  BY RowIsThere
<1>5. \A t \in Tx : \/ tx'[t] = rows[t]
                    \/ /\ tx'[t] # NoRow /\ rows[t] # NoRow
                       /\ SameRow(tx'[t], rows[t]) /\ tx'[t].amount = rows[t].amount
  BY <1>2, <1>3, <1>4 DEF Becomes
<1>6. ASSUME NEW t \in Tx
      PROVE  /\ LegIn(t, tx') <=> LegIn(t, rows)
             /\ tx'[t].leg = rows[t].leg /\ tx'[t].transfer = rows[t].transfer
             /\ tx'[t].amount = rows[t].amount
  BY <1>5 DEF LegIn, SameRow
<1>7. TransfersIn(tx')
  BY <1>6, LegsStay
<1>8. \A d \in Tx : (Debit(d, tx') <=> Debit(d, rows)) /\ (Debit(d, rows) => Credits(d, tx') = Credits(d, rows))
  BY <1>6, LegsStay
\* The credit legs posted are those of the head, which is a debit leg then.
<1>9. \A c \in S : c # head => /\ LegIn(c, rows) /\ rows[c].leg = "credit" /\ Debit(head, rows)
                               /\ rows[c].transfer = rows[head].transfer
  BY <1>1, <1>3, <1>4 DEF PostedWith, CreditLegOf, LegIn, Debit
<1>10. \A d \in Tx : Debit(d, rows) /\ d # head => d \notin S /\ \A c \in Credits(d, rows) : c \notin S
  BY <1>9 DEF TransfersIn, Debit, Credits
<1>11. \A d \in Tx : Debit(d, rows) => \A c \in Credits(d, rows) : c \notin G
  BY <1>2 DEF PairsIn, PairIn
<1>12. ASSUME NEW d \in Tx, Debit(d, rows)
       PROVE  PairIn(d, tx', audit')
  <2>1. PairIn(d, rows, trail)
    BY <1>12 DEF PairsIn
  <2>2. CASE d = head
    <3>1. tx'[d].status = "posted"
      BY <1>3, <2>2 DEF Becomes
    <3>2. ASSUME NEW c \in Credits(d, rows), rows[c].status = "submitted"
          PROVE  tx'[c].status = "posted"
      <4>1. c \in S
        BY <1>1, <1>12, <2>2, <3>2 DEF PostedWith, CreditLegOf, Credits, LegIn, Debit
      <4> QED
        BY <1>3, <4>1 DEF Becomes
    <3>3. ASSUME NEW c \in Credits(d, rows), rows[c].status # "submitted"
          PROVE  tx'[c] = rows[c] /\ rows[c].status \in {"posted", "rejected"}
      <4>1. rows[c].status \in {"posted", "rejected"} /\ c \in Tx
        BY <2>1, <3>3 DEF PairIn, Credits
      <4>2. c \notin S /\ c \notin G
        BY <1>3, <1>11, <1>12, <4>1
      <4> QED
        BY <1>2, <4>1, <4>2
    <3>4. \A c \in Credits(d, rows) : tx'[c].amount = tx'[d].amount
      BY <1>6, <1>12, <2>1 DEF PairIn, Credits, Debit, LegIn
    <3> QED
      BY <1>8, <1>12, <2>1, <3>1, <3>2, <3>3, <3>4 DEF PairIn
  <2>3. CASE d # head
    <3>1. \A c \in Credits(d, rows) : c \in Tx /\ tx'[c] = rows[c]
      BY <1>2, <1>10, <1>11, <1>12, <2>3 DEF Credits
    <3>2. d \notin S /\ (tx'[d] = rows[d] \/ (rows[d].status # "posted" /\ tx'[d].status = "cancelled"))
      BY <1>2, <1>10, <1>12, <2>3 DEF Becomes
    <3>3. tx'[d].amount = rows[d].amount
      BY <1>6, <1>12 DEF Debit, LegIn
    <3> QED
      BY <1>8, <1>12, <2>1, <3>1, <3>2, <3>3 DEF PairIn
  <2> QED
    BY <2>2, <2>3
<1>13. ASSUME NEW d \in Tx, Debit(d, rows)
       PROVE  transfer'[rows[d].transfer] = tx'[d].status
  <2>1. PICK x \in Transfer : x = rows[d].transfer
    BY <1>13 DEF RowsIn, IsRow, Debit, LegIn
  <2>2. \A t \in G : rows[t].transfer = x => t = d
    <3> SUFFICES ASSUME NEW t \in G, rows[t].transfer = x
                 PROVE  t = d
      OBVIOUS
    <3>1. t \in Tx /\ IsRow(rows[t]) /\ rows[t] # NoRow
      BY <1>2, <1>4
    <3>2. LegIn(t, rows) /\ rows[t].leg \in Direction
      BY <3>1, <2>1, NoTransferAssumption DEF IsRow, LegIn
    <3>3. t \notin Credits(d, rows)
      BY <1>11, <1>13
    <3>4. rows[t].leg = "debit"
      BY <2>1, <3>1, <3>2, <3>3 DEF Credits, Direction
    <3> QED
      BY <1>13, <2>1, <3>1, <3>2, <3>4 DEF TransfersIn, Debit
  <2>3. CASE d = head
    <3>1. \A t \in G : rows[t].transfer # x
      BY <1>2, <1>3, <2>2, <2>3
    <3> QED
      BY <1>2, <1>3, <2>1, <2>3, <3>1 DEF Becomes
  <2>4. CASE d # head /\ d \in G
    BY <1>2, <2>1, <2>4 DEF Becomes
  <2>5. CASE d # head /\ d \notin G
    <3>1. rows[head].transfer # x
      <4>1. SUFFICES ASSUME rows[head].transfer = x PROVE FALSE
        OBVIOUS
      <4>2. LegIn(head, rows) /\ rows[head].leg = "debit"
        BY <1>3, <1>4, <2>1, <4>1, NoTransferAssumption DEF IsRow, LegIn, Direction
      <4> QED
        BY <1>13, <2>1, <2>5, <4>1, <4>2 DEF TransfersIn, Debit
    <3>2. tx'[d] = rows[d]
      BY <1>2, <1>10, <1>13, <2>5
    <3> QED
      BY <1>2, <1>13, <2>1, <2>2, <2>5, <3>1, <3>2
  <2> QED
    BY <2>3, <2>4, <2>5
<1>14. PairsIn(tx', audit')
  BY <1>8, <1>12 DEF PairsIn
<1>15. MirrorsIn(tx', transfer')
  BY <1>6, <1>8, <1>13 DEF MirrorsIn, Debit, LegIn
<1> QED
  BY <1>7, <1>14, <1>15

\* Who did what: what a posting adds to the trail says only who posted it.
LEMMA PostKeepsPeople ==
    ASSUME NEW rows, RowsIn(rows), NEW head \in Tx, NEW accts, NEW steps, NEW chains, NEW trail,
           PostAndEnd(head, rows, accts, steps), EntriesIn(entry, rows),
           PeopleIn(rows, chains, trail), trail \subseteq audit',
           \A o, did, t : <<o, did, t>> \in audit' => <<o, did, t>> \in trail \/ did = "posted",
           chains[head] = NoChain \/ ThreeOn(head, rows, audit')
    PROVE  PeopleIn(tx', chains, audit')
<1>1. /\ RowsIn(tx') /\ Onward(rows, tx')
      /\ \A t \in Tx : rows[t] = NoRow => tx'[t] = NoRow
      /\ \A t \in Tx : rows[t].status = "posted" => tx'[t] = rows[t]
      /\ \A t \in Tx : tx'[t].status = "approved" => rows[t].status = "approved"
      /\ \A t \in Tx : tx'[t].status = "posted" /\ rows[t].status # "posted" => t \in PostedWith(head, rows)
  BY PostKeepsRows
<1>2. \A o, t : /\ <<o, "captured", t>> \in audit' <=> <<o, "captured", t>> \in trail
                /\ <<o, "approved", t>> \in audit' <=> <<o, "approved", t>> \in trail
  OBVIOUS
<1>3. SUFFICES ASSUME NEW t \in Tx
               PROVE  PeopleOn(t, tx', chains, audit')
  BY DEF PeopleIn
<1>4. PeopleOn(t, rows, chains, trail)
  BY DEF PeopleIn
<1>5. rows[t] # NoRow => SameRow(tx'[t], rows[t])
  BY <1>1 DEF Onward
<1>6. ASSUME chains[t] # NoChain
      PROVE  rows[t] # NoRow /\ tx'[t].leg = rows[t].leg /\ tx'[t].kind = rows[t].kind /\ rows[t].leg # "credit"
  BY <1>4, <1>5, <1>6 DEF PeopleOn, SameRow
<1>7. ASSUME chains[t] # NoChain, tx'[t].status = "posted"
      PROVE  ThreeOn(t, tx', audit')
  <2>1. CASE rows[t].status = "posted"
    <3>1. ThreeOn(t, rows, trail)
      BY <1>4, <1>7, <2>1 DEF PeopleOn
    <3>2. tx'[t].kind = rows[t].kind
      BY <1>6, <1>7
    <3> QED
      BY <3>1, <3>2, ThreeStay
  <2>2. CASE rows[t].status # "posted"
    <3>1. t = head
      BY <1>1, <1>6, <1>7, <2>2 DEF PostedWith, CreditLegOf
    <3>2. ThreeOn(t, rows, audit')
      BY <1>7, <3>1
    <3> QED
      BY <1>6, <1>7, <3>2 DEF ThreeOn
  <2> QED
    BY <2>1, <2>2
<1>8. tx'[t] = NoRow => rows[t] = NoRow
  BY <1>1 DEF Onward
<1>9. /\ tx'[t] = NoRow => /\ chains[t] = NoChain
                           /\ \A o : <<o, "captured", t>> \notin audit' /\ <<o, "approved", t>> \notin audit'
      /\ \A o : <<o, "approved", t>> \in audit' => <<o, "captured", t>> \notin audit'
      /\ chains[t] # NoChain => \E c \in Officer : <<c, "captured", t>> \in audit'
  BY <1>2, <1>4, <1>8 DEF PeopleOn
<1>10. tx'[t].status = "approved" => \E a \in Officer : <<a, "approved", t>> \in audit'
  BY <1>1, <1>2, <1>4 DEF PeopleOn
<1>11. chains[t] # NoChain => tx'[t].leg # "credit"
  BY <1>6
<1> QED
  BY <1>7, <1>9, <1>10, <1>11 DEF PeopleOn

----------------------------------------------------------------------------
(* The invariant *)

\* All of it but the requests.
Holds(rows, entries, chains, transfers, trail) ==
    /\ RowsIn(rows)
    /\ WorkIn(chains, transfers)
    /\ PeopleIn(rows, chains, trail)
    /\ TransfersIn(rows)
    /\ PairsIn(rows, trail)
    /\ MirrorsIn(rows, transfers)
    /\ EntriesIn(entries, rows)

\* What a request read when it began, and what nobody changes after: its
\* transaction stays there, and nobody captures it again.
OnOne(d, rows) == d.tx \in Tx /\ rows[d.tx] # NoRow /\ rows[d.tx].leg # "credit"

Decision(d) ==
    /\ d.as \in {"reviewed", "approved", "returned", "rejected"}
    /\ d.to \in {"under_review", "approved", "returned", "rejected"}
    /\ d.to = "approved" <=> d.as = "approved"
    /\ d.to = "rejected" <=> d.as = "rejected"

Approved(d, rows, trail) ==
    \E a \in Officer :
        /\ <<a, "approved", d.tx>> \in trail
        /\ a # d.by \/ (rows[d.tx].kind = "deposit" /\ <<App, "captured", d.tx>> \in trail)

RequestIn(d, rows, trail) ==
    /\ d.does # "nothing" => d.does = "reverse" \/ d.by \in Officer
    /\ d.does = "record" => d.form \in Forms
    /\ d.does = "draft" => d.form \in Drafted
    /\ d.does \in {"edit", "send", "drop"} => OnOne(d, rows) /\ rows[d.tx].kind = "deposit"
    /\ d.does \in {"resubmit", "review", "post"} => OnOne(d, rows)
    /\ d.does = "start" => /\ d.tx \in Tx
                           /\ IsRow(d.row) /\ d.row.kind \in ExitKind /\ d.row.status = "draft"
    /\ d.does \in {"submit", "cancel"} => OnOne(d, rows) /\ rows[d.tx].kind \in ExitKind
    /\ d.does \in {"send", "resubmit", "submit"} => \E c \in Officer : <<c, "captured", d.tx>> \in trail
    /\ d.does \in {"review", "post"} => <<d.by, "captured", d.tx>> \notin trail
    /\ d.does = "review" => Decision(d)
    /\ d.does = "post" => Approved(d, rows, trail)
    /\ d.does = "reverse" => d.targets \in SUBSET Tx /\ \A t \in d.targets : rows[t] # NoRow

ReviewInv ==
    /\ Holds(tx, entry, chain, transfer, audit)
    /\ desk = [q \in Request |-> desk[q]]
    /\ \A q \in Request : RequestIn(desk[q], tx, audit)

\* What a step may do to the rows and the trail that requests have read.
Kept ==
    /\ Holds(tx', entry', chain', transfer', audit')
    /\ Onward(tx, tx')
    /\ audit \subseteq audit'
    /\ \A o, t : <<o, "captured", t>> \in audit' => <<o, "captured", t>> \in audit \/ tx[t] = NoRow

LEMMA RequestStays ==
    ASSUME NEW d, RequestIn(d, tx, audit), Kept
    PROVE  RequestIn(d, tx', audit')
<1>1. OnOne(d, tx) => OnOne(d, tx') /\ tx'[d.tx].kind = tx[d.tx].kind
  BY DEF OnOne, Kept, Onward, SameRow
<1>2. OnOne(d, tx) /\ <<d.by, "captured", d.tx>> \notin audit => <<d.by, "captured", d.tx>> \notin audit'
  BY DEF OnOne, Kept
<1>3. OnOne(d, tx) /\ Approved(d, tx, audit) => Approved(d, tx', audit')
  BY <1>1 DEF Approved, Kept
<1>4. d.does = "reverse" => \A t \in d.targets : tx'[t] # NoRow
  BY DEF RequestIn, Kept, Onward
<1>5. (\E c \in Officer : <<c, "captured", d.tx>> \in audit) => \E c \in Officer : <<c, "captured", d.tx>> \in audit'
  BY DEF Kept
<1> QED
  BY <1>1, <1>2, <1>3, <1>4, <1>5 DEF RequestIn

\* A request that ends after such a step leaves the invariant.
LEMMA RequestEnds ==
    ASSUME ReviewInv, NEW q \in Request, Kept, Sits(q, Idle)
    PROVE  ReviewInv'
<1>1. \A p \in Request : RequestIn(desk[p], tx', audit')
  BY RequestStays DEF ReviewInv
<1>2. RequestIn(Idle, tx', audit')
  BY DEF RequestIn, Idle
<1>3. desk' = [p \in Request |-> IF p = q THEN Idle ELSE desk[p]]
  BY DEF ReviewInv, Sits
<1>4. \A p \in Request : RequestIn(desk'[p], tx', audit')
  BY <1>1, <1>2, <1>3
<1> QED
  BY <1>3, <1>4 DEF ReviewInv, Kept

----------------------------------------------------------------------------
(* Sending off *)

LEMMA PairsStay ==
    ASSUME NEW rows, NEW trail, NEW later, PairsIn(rows, trail), trail \subseteq later
    PROVE  PairsIn(rows, later)
BY DEF PairsIn, PairIn

\* The transfer row follows its debit leg.
LEMMA MirrorsFollow ==
    ASSUME NEW rows, RowsIn(rows), TransfersIn(rows), NEW head \in Tx, IsRow(rows[head]),
           rows[head].leg # "credit", NEW r, SameRow(r, rows[head]),
           Mirrors(r, rows[head].status), WorkIn(chain, transfer),
           \A d \in Tx : Debit(d, rows) /\ d # head => transfer[rows[d].transfer] = rows[d].status
    PROVE  MirrorsIn(rows, transfer') /\ transfer' = [x \in Transfer |-> transfer'[x]]
<1>1. PICK x : x = rows[head].transfer
  OBVIOUS
<1>2. transfer' = IF rows[head].kind = "transfer_leg" THEN [transfer EXCEPT ![x] = rows[head].status]
                  ELSE transfer
  BY <1>1 DEF Mirrors, SameRow
<1>3. rows[head].kind = "transfer_leg" => x \in Transfer /\ Debit(head, rows)
  BY <1>1, RowIsThere DEF IsRow, Debit, LegIn, Direction
<1>4. transfer = [y \in Transfer |-> transfer[y]]
  BY DEF WorkIn
<1>5. ASSUME NEW d \in Tx, Debit(d, rows)
      PROVE  transfer'[rows[d].transfer] = rows[d].status
  <2>1. CASE rows[head].kind = "transfer_leg"
    <3>1. transfer' = [transfer EXCEPT ![x] = rows[head].status]
      BY <1>2, <2>1
    <3>2. d # head => rows[d].transfer # x
      BY <1>1, <1>3, <1>5, <2>1 DEF TransfersIn, Debit
    <3>3. rows[d].transfer \in Transfer
      BY <1>5 DEF RowsIn, IsRow, Debit, LegIn
    <3> QED
      BY <1>1, <1>3, <1>4, <1>5, <2>1, <3>1, <3>2, <3>3
  <2>2. CASE rows[head].kind # "transfer_leg"
    BY <1>2, <1>5, <2>2 DEF Debit, LegIn
  <2> QED
    BY <2>1, <2>2
<1>6. MirrorsIn(rows, transfer')
  BY <1>5 DEF MirrorsIn
<1>7. transfer' = [y \in Transfer |-> transfer'[y]]
  BY <1>2, <1>4
<1> QED
  BY <1>6, <1>7

\* A row sent off, on rows as its handler left them, waits or is posted.
LEMMA Submitted ==
    ASSUME ReviewInv, NEW o \in Officer, NEW head \in Tx, NEW rows, NEW accts, NEW c, NEW s, NEW seen,
           Submit(o, head, rows, accts, c, s, seen),
           IsRow(rows[head]), rows[head].status = "submitted", rows[head].leg # "credit",
           RowsIn(rows), Onward(tx, rows), Steady(tx, rows), TransfersIn(rows), PairsIn(rows, audit),
           \A d \in Tx : Debit(d, rows) /\ d # head => transfer[rows[d].transfer] = rows[d].status,
           PeopleIn(rows, [chain EXCEPT ![head] = c], audit \cup seen),
           \A e \in seen : \E t : e = <<o, "captured", t>> /\ tx[t] = NoRow
    PROVE  Kept /\ Steady(tx, tx')
<1>1. WorkIn(chain, transfer) /\ EntriesIn(entry, tx)
  BY DEF ReviewInv, Holds
<1>2. chain' = [chain EXCEPT ![head] = c]
  BY DEF Submit
<1>3. chain' = [t \in Tx |-> chain'[t]]
  BY <1>1, <1>2 DEF WorkIn
<1>4. EntriesIn(entry, rows)
  BY <1>1, EntriesStay
<1>5. PICK trail : trail = audit \cup seen
  OBVIOUS
<1>6. audit \subseteq trail /\ PeopleIn(rows, chain', trail) /\ PairsIn(rows, trail)
  BY <1>2, <1>5, PairsStay
<1>7. \A e \in trail : e \in audit \/ \E t : e = <<o, "captured", t>> /\ tx[t] = NoRow
  BY <1>5
<1>8. CASE c # NoChain
  <2>1. tx' = rows /\ entry' = entry /\ audit' = trail /\ Mirrors(rows[head], "submitted")
    BY <1>5, <1>8 DEF Submit
  <2>2. SameRow(rows[head], rows[head])
    BY DEF SameRow
  <2>3. MirrorsIn(rows, transfer') /\ transfer' = [x \in Transfer |-> transfer'[x]]
    BY <1>1, <2>1, <2>2, MirrorsFollow
  <2>4. WorkIn(chain', transfer')
    BY <1>3, <2>3 DEF WorkIn
  <2>5. Holds(tx', entry', chain', transfer', audit')
    BY <1>4, <1>6, <2>1, <2>3, <2>4 DEF Holds
  <2>6. \A r, t : <<r, "captured", t>> \in audit' => <<r, "captured", t>> \in audit \/ tx[t] = NoRow
    BY <1>7, <2>1
  <2> QED
    BY <1>6, <2>1, <2>5, <2>6 DEF Kept
<1>9. CASE c = NoChain
  <2>1. PICK steps : PostAndEnd(head, rows, accts, steps)
    BY <1>9 DEF Submit
  <2>2. audit' = trail \cup Records(o, "posted", PostedWith(head, rows))
    BY <1>5, <1>9 DEF Submit
  <2>3. trail \subseteq audit' /\ \A r, did, t : <<r, did, t>> \in audit' => <<r, did, t>> \in trail \/ did = "posted"
    BY <2>2 DEF Records
  <2>4. chain'[head] = NoChain
    BY <1>1, <1>2, <1>9 DEF WorkIn
  <2>5. PeopleIn(tx', chain', audit')
    BY <1>4, <1>6, <2>1, <2>3, <2>4, PostKeepsPeople
  <2>6. RowsIn(tx') /\ Onward(rows, tx') /\ Steady(rows, tx') /\ EntriesIn(entry', tx')
    BY <1>4, <2>1, PostKeepsRows
  <2>7. TransfersIn(tx') /\ PairsIn(tx', audit') /\ MirrorsIn(tx', transfer')
    BY <1>6, <2>1, <2>3, PostKeepsLegs
  <2>8. transfer' = [x \in Transfer |-> transfer'[x]]
    BY <2>1 DEF PostAndEnd
  <2>9. Holds(tx', entry', chain', transfer', audit')
    BY <1>3, <2>5, <2>6, <2>7, <2>8 DEF Holds, WorkIn
  <2>10. Onward(tx, tx')
    BY <2>6 DEF Onward, SameRow
  <2>11. \A r, t : <<r, "captured", t>> \in audit' => <<r, "captured", t>> \in audit \/ tx[t] = NoRow
    BY <1>7, <2>3
  <2>12. Steady(tx, tx')
    BY <2>6, SteadyOn
  <2> QED
    BY <1>6, <2>3, <2>9, <2>10, <2>11, <2>12 DEF Kept
<1> QED
  BY <1>8, <1>9

----------------------------------------------------------------------------
(* Captures *)

\* A form's rows: its lead, and the credit leg of its transfer.
LEMMA FormRows ==
    ASSUME NEW form \in Forms \cup Drafted, NEW head, head = Lead(form)
    PROVE  /\ DOMAIN form \in SUBSET Tx /\ head \in DOMAIN form /\ form[head].leg # "credit"
           /\ \A t \in DOMAIN form : IsRow(form[t]) /\ form[t].status = "submitted" /\ form[t].kind # "reversal"
           /\ \A t \in DOMAIN form \ {head} :
                  /\ form[head].kind = "transfer_leg" /\ form[head].leg = "debit"
                  /\ form[t].kind = "transfer_leg" /\ form[t].leg = "credit"
                  /\ form[t].transfer = form[head].transfer /\ form[t].amount = form[head].amount
           /\ \A t, u \in DOMAIN form \ {head} : t = u
<1>1. /\ OneRow(form) \/ Legs(form)
      /\ \A t \in DOMAIN form : form[t] \in Row /\ WellFormed(form[t]) /\ form[t].status = "submitted"
  BY FormsAssumption
<1>2. CASE OneRow(form)
  <2>1. PICK t \in Tx : /\ DOMAIN form = {t} /\ form[t].kind \in {"deposit", "withdrawal"}
                        /\ form[t].leg = "none" /\ form[t].transfer = NoTransfer
    BY <1>2 DEF OneRow
  <2>2. head = t
    BY <2>1 DEF Lead
  <2>3. IsRow(form[t])
    BY <1>1, <2>1 DEF IsRow, Row, Status, WellFormed
  <2> QED
    BY <1>1, <2>1, <2>2, <2>3
<1>3. CASE Legs(form)
  <2>1. PICK d, c \in Tx :
            /\ DOMAIN form = {d, c}
            /\ \A t \in {d, c} : form[t].kind = "transfer_leg" /\ form[t].transfer \in Transfer
            /\ form[d].leg = "debit"
            /\ c # d => /\ form[c].leg = "credit"
                        /\ form[c].transfer = form[d].transfer /\ form[c].amount = form[d].amount
    BY <1>3 DEF Legs
  <2>2. head = d
    BY <2>1 DEF Lead
  <2>3. \A t \in {d, c} : IsRow(form[t])
    BY <1>1, <2>1 DEF IsRow, Row, Status, Direction, WellFormed
  <2> QED
    BY <1>1, <2>1, <2>2, <2>3
<1> QED
  BY <1>1, <1>2, <1>3

LEMMA RecordedKeeps ==
    ASSUME ReviewInv, NEW q \in Request, NEW kind, Recorded(q, kind)
    PROVE  Kept /\ Steady(tx, tx')
<1>1. PICK form, o, head : form = desk[q].form /\ o = desk[q].by /\ head = Lead(form)
  OBVIOUS
<1>2. form \in Forms /\ o \in Officer
  BY <1>1 DEF ReviewInv, RequestIn, Recorded
<1>3. /\ DOMAIN form \in SUBSET Tx /\ head \in DOMAIN form /\ form[head].leg # "credit"
      /\ \A t \in DOMAIN form : IsRow(form[t]) /\ form[t].status = "submitted" /\ form[t].kind # "reversal"
      /\ \A t \in DOMAIN form \ {head} :
             /\ form[head].kind = "transfer_leg" /\ form[head].leg = "debit"
             /\ form[t].kind = "transfer_leg" /\ form[t].leg = "credit"
             /\ form[t].transfer = form[head].transfer /\ form[t].amount = form[head].amount
      /\ \A t, u \in DOMAIN form \ {head} : t = u
  BY <1>1, <1>2, FormRows
<1>4. PICK rows : rows = [t \in Tx |-> IF t \in DOMAIN form THEN form[t] ELSE tx[t]]
  OBVIOUS
<1>5. /\ \A t \in DOMAIN form : tx[t] = NoRow
      /\ Submit(o, head, rows, account, desk[q].chain, desk[q].step, Records(o, "captured", {head}))
  BY <1>1, <1>4 DEF Recorded
<1>6. Holds(tx, entry, chain, transfer, audit)
  BY DEF ReviewInv
<1>7. \A t \in Tx : rows[t] = IF t \in DOMAIN form THEN form[t] ELSE tx[t]
  BY <1>4
<1>8. \A r : IsRow(r) => r # NoRow
  BY RowIsThere
<1>9. RowsIn(rows) /\ Onward(tx, rows)
  BY <1>3, <1>4, <1>5, <1>6, <1>7 DEF Holds, RowsIn, Onward, SameRow
\* The transfer of a form is its own.
<1>10. ASSUME NEW t \in DOMAIN form, NEW u \in Tx \ DOMAIN form, LegIn(t, rows), LegIn(u, rows)
       PROVE  rows[t].transfer # rows[u].transfer
  <2>1. PICK other \in Forms : u \in DOMAIN other /\ other[u].transfer = rows[u].transfer
    BY <1>6, <1>7, <1>10 DEF Holds, TransfersIn, LegIn
  <2>2. form[t].transfer \in Transfer /\ rows[t] = form[t]
    BY <1>3, <1>7, <1>10 DEF LegIn, IsRow
  <2> QED
    BY <1>2, <1>10, <2>1, <2>2, FormsAssumption
<1>11. \A t \in Tx \ DOMAIN form : LegIn(t, rows) <=> LegIn(t, tx)
  BY <1>7 DEF LegIn
<1>12. TransfersIn(rows)
  <2>1. ASSUME NEW t \in Tx, LegIn(t, rows)
        PROVE  \E f \in Forms : t \in DOMAIN f /\ f[t].transfer = rows[t].transfer
    BY <1>2, <1>6, <1>7, <1>11, <2>1 DEF Holds, TransfersIn
  <2>2. ASSUME NEW t \in Tx, NEW u \in Tx, LegIn(t, rows), LegIn(u, rows),
               rows[t].transfer = rows[u].transfer, rows[t].leg = rows[u].leg
        PROVE  t = u
    <3>1. CASE t \in DOMAIN form /\ u \in DOMAIN form
      <4>1. CASE t = head \/ u = head
        BY <1>3, <1>7, <2>2, <3>1, <4>1
      <4>2. CASE t # head /\ u # head
        BY <1>3, <3>1, <4>2
      <4> QED
        BY <4>1, <4>2
    <3>2. CASE t \notin DOMAIN form /\ u \notin DOMAIN form
      BY <1>6, <1>7, <1>11, <2>2, <3>2 DEF Holds, TransfersIn
    <3> QED
      BY <1>10, <2>2, <3>1, <3>2
  <2>3. ASSUME NEW t \in Tx, LegIn(t, rows), rows[t].leg = "credit"
        PROVE  \E d \in Tx : Debit(d, rows) /\ rows[d].transfer = rows[t].transfer
    <3>1. CASE t \in DOMAIN form
      <4>1. t # head
        BY <1>3, <1>7, <2>3, <3>1
      <4>2. Debit(head, rows) /\ rows[head].transfer = rows[t].transfer
        BY <1>3, <1>7, <1>8, <3>1, <4>1 DEF Debit, LegIn
      <4> QED
        BY <1>3, <4>2
    <3>2. CASE t \notin DOMAIN form
      <4>1. PICK d \in Tx : Debit(d, tx) /\ tx[d].transfer = tx[t].transfer
        BY <1>6, <1>7, <1>11, <2>3, <3>2 DEF Holds, TransfersIn
      <4>2. d \notin DOMAIN form
        BY <1>5, <4>1 DEF Debit, LegIn
      <4> QED
        BY <1>7, <1>11, <3>2, <4>1, <4>2 DEF Debit
    <3> QED
      BY <3>1, <3>2
  <2> QED
    BY <2>1, <2>2, <2>3 DEF TransfersIn
<1>13. ASSUME NEW d \in Tx, Debit(d, rows)
       PROVE  PairIn(d, rows, audit)
  <2>1. CASE d \in DOMAIN form
    <3>1. d = head
      BY <1>3, <1>7, <1>13, <2>1 DEF Debit
    <3>2. \A c \in Credits(d, rows) : c \in DOMAIN form
      BY <1>10, <1>13, <2>1 DEF Credits, Debit
    <3>3. \A c \in Credits(d, rows) : c # head
      BY <1>3, <1>7 DEF Credits
    <3> QED
      BY <1>3, <1>7, <3>1, <3>2, <3>3 DEF PairIn
  <2>2. CASE d \notin DOMAIN form
    <3>1. \A c \in Credits(d, rows) : c \notin DOMAIN form
      BY <1>10, <1>13, <2>2 DEF Credits, Debit
    <3>2. \A c \in Credits(d, rows) : c \in Credits(d, tx) /\ rows[c] = tx[c]
      BY <1>7, <1>11, <2>2, <3>1 DEF Credits
    <3>3. PairIn(d, tx, audit)
      BY <1>6, <1>7, <1>11, <1>13, <2>2 DEF Holds, PairsIn, Debit
    <3> QED
      BY <1>7, <2>2, <3>2, <3>3 DEF PairIn
  <2> QED
    BY <2>1, <2>2
<1>14. PairsIn(rows, audit)
  BY <1>13 DEF PairsIn
<1>15. ASSUME NEW d \in Tx, Debit(d, rows), d # head
       PROVE  transfer[rows[d].transfer] = rows[d].status
  <2>1. d \notin DOMAIN form
    BY <1>3, <1>7, <1>15 DEF Debit
  <2> QED
    BY <1>6, <1>7, <1>11, <1>15, <2>1 DEF Holds, MirrorsIn, Debit
<1>16. ASSUME NEW t \in Tx
       PROVE  PeopleOn(t, rows, [chain EXCEPT ![head] = desk[q].chain], audit \cup Records(o, "captured", {head}))
  <2>1. PICK chains, trail : /\ chains = [chain EXCEPT ![head] = desk[q].chain]
                             /\ trail = audit \cup Records(o, "captured", {head})
    OBVIOUS
  <2>2. /\ \A r : <<r, "approved", t>> \in trail <=> <<r, "approved", t>> \in audit
        /\ \A r : <<r, "captured", t>> \in trail <=> <<r, "captured", t>> \in audit \/ (t = head /\ r = o)
        /\ audit \subseteq trail
    BY <2>1 DEF Records
  <2>3. PeopleOn(t, tx, chain, audit) /\ chain = [u \in Tx |-> chain[u]]
    BY <1>6 DEF Holds, PeopleIn, WorkIn
  <2>4. t # head => chains[t] = chain[t]
    BY <2>1, <2>3
  <2>5. CASE t \in DOMAIN form
    <3>1. rows[t] # NoRow /\ rows[t].status = "submitted" /\ tx[t] = NoRow
      BY <1>3, <1>5, <1>7, <1>8, <2>5
    <3>2. chain[t] = NoChain /\ \A r : <<r, "captured", t>> \notin audit /\ <<r, "approved", t>> \notin audit
      BY <2>3, <3>1 DEF PeopleOn
    <3>3. t = head => rows[t].leg # "credit"
      BY <1>3, <1>7
    <3> QED
      BY <1>2, <2>1, <2>2, <2>4, <3>1, <3>2, <3>3 DEF PeopleOn
  <2>6. CASE t \notin DOMAIN form
    <3>1. rows[t] = tx[t] /\ t # head /\ chains[t] = chain[t]
      BY <1>3, <1>7, <2>4, <2>6
    <3>2. ThreeOn(t, tx, audit) => ThreeOn(t, rows, trail)
      BY <2>2, <3>1 DEF ThreeOn
    <3> QED
      BY <2>1, <2>2, <2>3, <3>1, <3>2 DEF PeopleOn
  <2> QED
    BY <2>5, <2>6
<1>17. \A e \in Records(o, "captured", {head}) : \E t : e = <<o, "captured", t>> /\ tx[t] = NoRow
  BY <1>3, <1>5 DEF Records
<1>18. PeopleIn(rows, [chain EXCEPT ![head] = desk[q].chain], audit \cup Records(o, "captured", {head}))
  BY <1>16 DEF PeopleIn
<1>19. head \in Tx /\ IsRow(rows[head]) /\ rows[head].status = "submitted" /\ rows[head].leg # "credit"
  BY <1>3, <1>7
<1>20. Steady(tx, rows)
  <2>1. Firm(tx, rows)
    BY <1>5, <1>7 DEF Firm, NoRow, LegIn
  <2>2. ASSUME NEW t \in Tx, NEW u \in Tx, tx[t] = NoRow, LegIn(t, rows), LegIn(u, rows),
               rows[t].transfer = rows[u].transfer
        PROVE  tx[u] = NoRow
    <3>1. t \in DOMAIN form
      BY <1>7, <2>2 DEF LegIn
    <3> QED
      BY <1>5, <1>10, <2>2, <3>1
  <2>3. \A t \in Tx : tx[t] = NoRow /\ rows[t] # NoRow => rows[t].kind # "reversal"
    BY <1>3, <1>7
  <2> QED
    BY <2>1, <2>2, <2>3 DEF Steady, LegsCome, NoneReversed
<1> QED
  BY <1>2, <1>5, <1>9, <1>12, <1>14, <1>15, <1>17, <1>18, <1>19, <1>20, Submitted

----------------------------------------------------------------------------
(* Deposits that need a Source of Fund form *)

\* Writing rows that are no legs disturbs no leg.
LEMMA PlainRowsWritten ==
    ASSUME ReviewInv, NEW rows, rows = [t \in Tx |-> rows[t]],
           \A t \in Tx : rows[t] # tx[t] =>
               IsRow(rows[t]) /\ rows[t].kind # "transfer_leg" /\ (tx[t] = NoRow \/ SameRow(rows[t], tx[t]))
    PROVE  /\ RowsIn(rows) /\ Onward(tx, rows)
           /\ TransfersIn(rows) /\ PairsIn(rows, audit) /\ MirrorsIn(rows, transfer)
           /\ EntriesIn(entry, rows)
<1>1. Holds(tx, entry, chain, transfer, audit)
  BY DEF ReviewInv
<1>3. RowsIn(rows) /\ Onward(tx, rows)
  BY <1>1, RowIsThere DEF Holds, RowsIn, Onward, SameRow
<1>4. \A u \in Tx : /\ LegIn(u, rows) <=> LegIn(u, tx)
                    /\ LegIn(u, rows) => rows[u] = tx[u]
  BY DEF LegIn, SameRow
<1>5. /\ TransfersIn(rows)
      /\ \A d \in Tx : /\ Debit(d, rows) <=> Debit(d, tx)
                       /\ Debit(d, tx) => Credits(d, rows) = Credits(d, tx)
  BY <1>1, <1>4, LegsStay DEF Holds
<1>6. \A d \in Tx : /\ Debit(d, rows) <=> Debit(d, tx)
                    /\ Debit(d, rows) => rows[d] = tx[d] /\ Credits(d, rows) = Credits(d, tx)
  BY <1>4, <1>5 DEF Debit
<1>7. PairsIn(rows, audit) /\ MirrorsIn(rows, transfer)
  <2>1. ASSUME NEW d \in Tx, Debit(d, rows)
        PROVE  PairIn(d, rows, audit)
    <3>1. PairIn(d, tx, audit)
      BY <1>1, <1>6, <2>1 DEF Holds, PairsIn
    <3>2. \A c \in Credits(d, rows) : rows[c] = tx[c] /\ c \in Credits(d, tx)
      BY <1>4, <1>6, <2>1 DEF Credits
    <3> QED
      BY <1>6, <2>1, <3>1, <3>2 DEF PairIn
  <2> QED
    BY <1>1, <1>6, <2>1 DEF Holds, PairsIn, MirrorsIn
<1>8. EntriesIn(entry, rows)
  BY <1>1, <1>3, EntriesStay DEF Holds
<1> QED
  BY <1>3, <1>5, <1>7, <1>8

LEMMA PlainRowWritten ==
    ASSUME ReviewInv, NEW t \in Tx, NEW r, IsRow(r), r.kind # "transfer_leg",
           tx[t] = NoRow \/ SameRow(r, tx[t]),
           NEW rows, rows = [u \in Tx |-> IF u = t THEN r ELSE tx[u]]
    PROVE  /\ RowsIn(rows) /\ Onward(tx, rows)
           /\ TransfersIn(rows) /\ PairsIn(rows, audit) /\ MirrorsIn(rows, transfer)
           /\ EntriesIn(entry, rows)
<1>1. \A u \in Tx : rows[u] = IF u = t THEN r ELSE tx[u]
  OBVIOUS
<1> QED
  BY <1>1, PlainRowsWritten

\* A row written with another status than posted or approved, or with the
\* status it had, leaves what people did.
LEMMA PeopleStay ==
    ASSUME ReviewInv, NEW rows, Onward(tx, rows), \A t \in Tx : tx[t] = NoRow => rows[t] = NoRow,
           \A t \in Tx : rows[t].status \in {"posted", "approved"} => rows[t].status = tx[t].status
    PROVE  PeopleIn(rows, chain, audit)
<1> SUFFICES ASSUME NEW t \in Tx
             PROVE  PeopleOn(t, rows, chain, audit)
  BY DEF PeopleIn
<1>1. PeopleOn(t, tx, chain, audit)
  BY DEF ReviewInv, Holds, PeopleIn
<1>2. rows[t] = NoRow <=> tx[t] = NoRow
  BY DEF Onward
<1>3. rows[t] # NoRow => rows[t].kind = tx[t].kind /\ rows[t].leg = tx[t].leg
  BY <1>2 DEF Onward, SameRow
<1>4. chain[t] # NoChain => rows[t].kind = tx[t].kind /\ rows[t].leg = tx[t].leg
  BY <1>1, <1>2, <1>3 DEF PeopleOn
<1>5. chain[t] # NoChain /\ ThreeOn(t, tx, audit) => ThreeOn(t, rows, audit)
  BY <1>4 DEF ThreeOn
<1> QED
  BY <1>1, <1>2, <1>4, <1>5 DEF PeopleOn

\* A row drafted alone, with its capture on the trail.
LEMMA CaptureKeeps ==
    ASSUME ReviewInv, NEW t \in Tx, tx[t] = NoRow, NEW r, IsRow(r), r.status = "draft",
           r.kind \notin {"transfer_leg", "reversal"}, NEW o \in Officer,
           tx' = [tx EXCEPT ![t] = r], audit' = audit \cup Records(o, "captured", {t}),
           UNCHANGED <<entry, chain, transfer>>
    PROVE  Kept /\ Steady(tx, tx')
<1>1. Holds(tx, entry, chain, transfer, audit)
  BY DEF ReviewInv
<1>2. tx' = [u \in Tx |-> IF u = t THEN r ELSE tx[u]]
  BY <1>1 DEF Holds, RowsIn
<1>3. audit \subseteq audit' /\ \A d, e, u : <<d, e, u>> \in audit' <=> <<d, e, u>> \in audit \/ (d = o /\ e = "captured" /\ u = t)
  BY DEF Records
<1>4. /\ RowsIn(tx') /\ Onward(tx, tx') /\ TransfersIn(tx') /\ PairsIn(tx', audit)
      /\ MirrorsIn(tx', transfer) /\ EntriesIn(entry, tx')
  BY <1>2, PlainRowWritten
<1>5. ASSUME NEW u \in Tx
      PROVE  PeopleOn(u, tx', chain, audit')
  <2>1. PeopleOn(u, tx, chain, audit)
    BY <1>1 DEF Holds, PeopleIn
  <2>2. CASE u = t
    <3>1. chain[t] = NoChain /\ \A d : <<d, "captured", t>> \notin audit /\ <<d, "approved", t>> \notin audit
      BY <2>1, <2>2 DEF PeopleOn
    <3>2. tx'[t] = r /\ r # NoRow
      BY <1>2, RowIsThere
    <3> QED
      BY <1>3, <2>2, <3>1, <3>2 DEF PeopleOn
  <2>3. CASE u # t
    <3>1. tx'[u] = tx[u]
      BY <1>2, <2>3
    <3>2. ThreeOn(u, tx, audit) => ThreeOn(u, tx', audit')
      BY <1>3, <3>1 DEF ThreeOn
    <3> QED
      BY <1>3, <2>1, <2>3, <3>1, <3>2 DEF PeopleOn
  <2> QED
    BY <2>2, <2>3
<1>6. PeopleIn(tx', chain, audit') /\ PairsIn(tx', audit')
  BY <1>3, <1>4, <1>5, PairsStay DEF PeopleIn
<1>7. Holds(tx', entry', chain', transfer', audit')
  BY <1>1, <1>4, <1>6 DEF Holds
<1>8. Steady(tx, tx')
  <2>1. Firm(tx, tx')
    BY <1>2 DEF Firm, NoRow, LegIn
  <2>2. \A u \in Tx : tx[u] = NoRow /\ tx'[u] # NoRow => tx'[u] = r
    BY <1>2
  <2> QED
    BY <2>1, <2>2 DEF Steady, LegsCome, NoneReversed, LegIn
<1> QED
  BY <1>3, <1>4, <1>7, <1>8 DEF Kept

LEMMA DraftKeeps ==
    ASSUME ReviewInv, NEW q \in Request, CommitRequest(q)
    PROVE  Kept /\ Steady(tx, tx')
<1>1. PICK form, o, t : form = desk[q].form /\ o = desk[q].by /\ t = Lead(form)
  OBVIOUS
<1>2. form \in Drafted /\ o \in Officer
  BY <1>1 DEF ReviewInv, RequestIn, CommitRequest
<1>3. t \in Tx /\ t \in DOMAIN form /\ IsRow(form[t]) /\ form[t].kind = "deposit"
  BY <1>1, <1>2, FormRows, FormsAssumption
<1>4. PICK r : r = [form[t] EXCEPT !.status = "draft"]
  OBVIOUS
<1>5. IsRow(r) /\ r.kind = "deposit" /\ r.status = "draft"
  BY <1>3, <1>4, StatusWritten DEF Becomes, SameRow, Status
<1>6. /\ tx[t] = NoRow /\ tx' = [tx EXCEPT ![t] = r]
      /\ audit' = audit \cup Records(o, "captured", {t})
      /\ UNCHANGED <<entry, chain, transfer>>
  BY <1>1, <1>4 DEF CommitRequest
<1> QED
  BY <1>2, <1>3, <1>5, <1>6, CaptureKeeps

\* A row written alone, by a step that writes nothing else here.
LEMMA RowWrittenKeeps ==
    ASSUME ReviewInv, NEW t \in Tx, NEW r, IsRow(r), r.kind # "transfer_leg", tx[t] # NoRow, SameRow(r, tx[t]),
           tx[t].status # "posted", r.status \in {"posted", "approved"} => r.status = tx[t].status,
           tx' = [u \in Tx |-> IF u = t THEN r ELSE tx[u]], UNCHANGED <<entry, chain, transfer, audit>>
    PROVE  Kept /\ Steady(tx, tx')
<1>1. /\ RowsIn(tx') /\ Onward(tx, tx') /\ TransfersIn(tx') /\ PairsIn(tx', audit)
      /\ MirrorsIn(tx', transfer) /\ EntriesIn(entry, tx')
  BY PlainRowWritten
<1>2. PeopleIn(tx', chain, audit)
  BY <1>1, PeopleStay
<1>3. WorkIn(chain, transfer)
  BY DEF ReviewInv, Holds
<1>4. Firm(tx, tx')
  BY DEF Firm, LegIn, SameRow
<1>5. Steady(tx, tx')
  BY <1>4, NoneNew
<1> QED
  BY <1>1, <1>2, <1>3, <1>5 DEF Kept, Holds

LEMMA UpdateKeeps ==
    ASSUME ReviewInv, NEW q \in Request, CommitUpdateRequest(q) \/ CommitCancelRequest(q)
    PROVE  Kept /\ Steady(tx, tx')
<1>1. PICK d : d = desk[q]
  OBVIOUS
<1>2. d.tx \in Tx /\ tx[d.tx] # NoRow /\ tx[d.tx].kind = "deposit" /\ tx[d.tx].status # "posted"
  BY <1>1 DEF ReviewInv, RequestIn, CommitUpdateRequest, CommitCancelRequest, OnOne
<1>3. RowsIn(tx) /\ IsRow(tx[d.tx]) /\ UNCHANGED <<entry, chain, transfer, audit>>
  BY <1>2 DEF ReviewInv, Holds, RowsIn, CommitUpdateRequest, CommitCancelRequest, work
<1>4. CASE CommitUpdateRequest(q)
  <2>1. PICK r : r = [tx[d.tx] EXCEPT !.amount = d.amount]
    OBVIOUS
  <2>2. IsRow(r) /\ r.kind = "deposit" /\ SameRow(r, tx[d.tx]) /\ r.status = tx[d.tx].status
    BY <1>2, <1>3, <2>1 DEF IsRow, SameRow
  <2>3. tx' = [u \in Tx |-> IF u = d.tx THEN r ELSE tx[u]]
    BY <1>1, <1>3, <1>4, <2>1 DEF CommitUpdateRequest, RowsIn
  <2> QED
    BY <1>2, <1>3, <2>2, <2>3, RowWrittenKeeps
<1>5. CASE CommitCancelRequest(q)
  <2>1. PICK r : r = [tx[d.tx] EXCEPT !.status = "cancelled"]
    OBVIOUS
  <2>2. IsRow(r) /\ r.kind = "deposit" /\ SameRow(r, tx[d.tx]) /\ r.status = "cancelled"
    BY <1>2, <1>3, <2>1, StatusWritten DEF Becomes, SameRow, Status
  <2>3. tx' = [u \in Tx |-> IF u = d.tx THEN r ELSE tx[u]]
    BY <1>1, <1>3, <1>5, <2>1 DEF CommitCancelRequest, RowsIn
  <2> QED
    BY <1>2, <1>3, <2>2, <2>3, RowWrittenKeeps
<1> QED
  BY <1>4, <1>5

----------------------------------------------------------------------------
(* Writing a transaction with its other leg *)

\* The other legs of what is no credit leg are its credit legs.
LEMMA OtherLegsAre ==
    ASSUME ReviewInv, NEW head \in Tx, tx[head] # NoRow, tx[head].leg # "credit"
    PROVE  /\ Debit(head, tx) => OtherLegs(head) = Credits(head, tx)
           /\ ~Debit(head, tx) => OtherLegs(head) = {} /\ tx[head].kind # "transfer_leg"
<1>1. RowsIn(tx) /\ TransfersIn(tx)
  BY DEF ReviewInv, Holds
<1>2. ASSUME Debit(head, tx), NEW u \in OtherLegs(head)
      PROVE  u \in Credits(head, tx)
  <2>1. u \in Tx /\ u # head /\ tx[u] # NoRow /\ tx[u].transfer = tx[head].transfer /\ tx[head].transfer \in Transfer
    BY <1>1, <1>2 DEF OtherLegs, Debit, LegIn, RowsIn, IsRow
  <2>2. LegIn(u, tx) /\ tx[u].leg \in Direction
    BY <1>1, <2>1, NoTransferAssumption DEF RowsIn, IsRow, LegIn
  <2>3. tx[u].leg # "debit"
    BY <1>1, <1>2, <2>1, <2>2 DEF TransfersIn, Debit
  <2> QED
    BY <2>1, <2>2, <2>3 DEF Credits, Direction
<1>3. ASSUME Debit(head, tx), NEW u \in Credits(head, tx)
      PROVE  u \in OtherLegs(head)
  BY <1>3 DEF Credits, Debit, LegIn, OtherLegs
<1>4. ~Debit(head, tx) => tx[head].kind # "transfer_leg"
  BY <1>1 DEF RowsIn, IsRow, Debit, LegIn, Direction
<1>5. ~Debit(head, tx) => OtherLegs(head) = {}
  BY <1>4 DEF OtherLegs
<1> QED
  BY <1>2, <1>3, <1>4, <1>5

LEMMA HeadWritten ==
    ASSUME ReviewInv, NEW head \in Tx, tx[head] # NoRow, tx[head].leg # "credit", NEW rows, NEW trail,
           rows = [t \in Tx |-> rows[t]], audit \subseteq trail,
           \A t \in Tx : tx[t] # NoRow => IsRow(rows[t]) /\ SameRow(rows[t], tx[t]),
           \A t \in Tx : t # head /\ t \notin OtherLegs(head) => rows[t] = tx[t],
           tx[head].status # "posted", rows[head].status # "posted",
           \A c \in OtherLegs(head) :
               /\ tx[c].status # "posted" /\ (tx[c].status = "rejected" => rows[c].status = "rejected")
               /\ rows[c].amount = rows[head].amount
               /\ rows[c].status \in {"submitted", "rejected"}
               /\ rows[c].status = "rejected" => \E o \in Officer : <<o, "rejected", head>> \in trail
    PROVE  /\ RowsIn(rows) /\ Onward(tx, rows) /\ Steady(tx, rows)
           /\ TransfersIn(rows) /\ PairsIn(rows, trail) /\ EntriesIn(entry, rows)
           /\ \A d \in Tx : Debit(d, rows) /\ d # head => transfer[rows[d].transfer] = rows[d].status
           /\ \A t \in Tx : tx[t] = NoRow => rows[t] = NoRow
           /\ \A t \in Tx : t # head /\ rows[t].status \in {"posted", "approved"} => rows[t].status = tx[t].status
<1>1. Holds(tx, entry, chain, transfer, audit)
  BY DEF ReviewInv
<1>2. \A t \in OtherLegs(head) : t \in Tx /\ tx[t] # NoRow
  BY DEF OtherLegs
<1>3. \A t \in Tx : tx[t] = NoRow => rows[t] = NoRow
  BY <1>2
<1>4. RowsIn(rows) /\ Onward(tx, rows)
  BY <1>1, <1>3, RowIsThere DEF RowsIn, Onward
<1>5. \A t \in Tx : /\ LegIn(t, rows) <=> LegIn(t, tx)
                    /\ LegIn(t, tx) => rows[t].leg = tx[t].leg /\ rows[t].transfer = tx[t].transfer
  BY <1>3, <1>4 DEF Onward, SameRow, LegIn
<1>6. /\ TransfersIn(rows)
      /\ \A d \in Tx : /\ Debit(d, rows) <=> Debit(d, tx)
                       /\ Debit(d, tx) => Credits(d, rows) = Credits(d, tx)
  BY <1>1, <1>5, LegsStay DEF Holds
<1>7. \A d \in Tx : /\ Debit(d, rows) <=> Debit(d, tx)
                    /\ Debit(d, tx) => Credits(d, rows) = Credits(d, tx) /\ rows[d].transfer = tx[d].transfer
  BY <1>5, <1>6 DEF Debit
<1>8. \A d \in Tx : Debit(d, tx) /\ d # head =>
          d \notin OtherLegs(head) /\ \A c \in Credits(d, tx) : c # head /\ c \notin OtherLegs(head)
  <2> SUFFICES ASSUME NEW d \in Tx, Debit(d, tx), d # head, NEW c \in Credits(d, tx)
               PROVE  c # head /\ c \notin OtherLegs(head)
    BY OtherLegsAre DEF Credits, Debit
  <2>1. c # head
    BY DEF Credits
  <2>2. Debit(head, tx) => tx[head].transfer # tx[d].transfer
    BY <1>1 DEF Holds, TransfersIn, Debit
  <2> QED
    BY <2>1, <2>2, OtherLegsAre DEF Credits
<1>9. \A d \in Tx : Debit(d, tx) /\ d # head => rows[d] = tx[d] /\ \A c \in Credits(d, tx) : rows[c] = tx[c]
  BY <1>8 DEF Credits
<1>10. ASSUME NEW d \in Tx, Debit(d, rows)
       PROVE  PairIn(d, rows, trail)
  <2>1. CASE d = head
    <3>1. Credits(d, rows) = OtherLegs(head)
      BY <1>7, <1>10, <2>1, OtherLegsAre
    <3> QED
      BY <2>1, <3>1 DEF PairIn
  <2>2. CASE d # head
    <3>1. PairIn(d, tx, audit)
      BY <1>1, <1>7, <1>10 DEF Holds, PairsIn
    <3> QED
      BY <1>7, <1>9, <1>10, <2>2, <3>1 DEF PairIn
  <2> QED
    BY <2>1, <2>2
<1>11. \A d \in Tx : Debit(d, rows) /\ d # head => transfer[rows[d].transfer] = rows[d].status
  BY <1>1, <1>7, <1>9 DEF Holds, MirrorsIn
<1>12. \A t \in Tx : t # head /\ rows[t].status \in {"posted", "approved"} => rows[t].status = tx[t].status
  <2> SUFFICES ASSUME NEW t \in Tx, t # head, rows[t].status \in {"posted", "approved"}
               PROVE  rows[t].status = tx[t].status
    OBVIOUS
  <2>1. t \notin OtherLegs(head)
    OBVIOUS
  <2> QED
    BY <2>1
<1>13. PairsIn(rows, trail) /\ EntriesIn(entry, rows)
  BY <1>1, <1>4, <1>10, EntriesStay DEF PairsIn, Holds
<1>14. Firm(tx, rows)
  BY DEF Firm
<1>15. Steady(tx, rows)
  BY <1>3, <1>14, NoneNew
<1> QED
  BY <1>3, <1>4, <1>6, <1>11, <1>12, <1>13, <1>15

\* A captured row that waits may be given another chain.
LEMMA PeopleSent ==
    ASSUME ReviewInv, NEW head \in Tx, NEW rows, NEW c, PeopleIn(rows, chain, audit),
           rows[head] # NoRow, rows[head].leg # "credit", rows[head].status # "posted",
           \E o \in Officer : <<o, "captured", head>> \in audit
    PROVE  PeopleIn(rows, [chain EXCEPT ![head] = c], audit \cup {})
<1>1. PICK chains, trail : chains = [chain EXCEPT ![head] = c] /\ trail = audit \cup {}
  OBVIOUS
<1>2. trail = audit
  BY <1>1
<1>3. \A t \in Tx : t # head => chains[t] = chain[t]
  BY <1>1 DEF ReviewInv, Holds, WorkIn
<1>4. ASSUME NEW t \in Tx
      PROVE  PeopleOn(t, rows, chains, audit)
  <2>1. PeopleOn(t, rows, chain, audit)
    BY DEF PeopleIn
  <2>2. CASE t = head
    BY <2>1, <2>2 DEF PeopleOn
  <2>3. CASE t # head
    BY <1>3, <2>1, <2>3 DEF PeopleOn
  <2> QED
    BY <2>2, <2>3
<1> QED
  BY <1>1, <1>2, <1>4 DEF PeopleIn

\* A row with no legs, sent off.
LEMMA PlainSent ==
    ASSUME ReviewInv, NEW head \in Tx, tx[head] # NoRow, tx[head].status # "posted",
           NEW r, IsRow(r), r.kind # "transfer_leg", SameRow(r, tx[head]), r.status = "submitted",
           NEW rows, rows = [u \in Tx |-> IF u = head THEN r ELSE tx[u]],
           \E c \in Officer : <<c, "captured", head>> \in audit,
           NEW o \in Officer, NEW accts, NEW c, NEW s, Submit(o, head, rows, accts, c, s, {})
    PROVE  Kept /\ Steady(tx, tx')
<1>1. /\ RowsIn(rows) /\ Onward(tx, rows)
      /\ TransfersIn(rows) /\ PairsIn(rows, audit) /\ MirrorsIn(rows, transfer)
  BY PlainRowWritten
<1>2. rows[head] = r /\ r # NoRow /\ r.leg # "credit"
  BY RowIsThere DEF IsRow
<1>3. PeopleIn(rows, chain, audit)
  BY <1>1, PeopleStay
<1>4. PeopleIn(rows, [chain EXCEPT ![head] = c], audit \cup {})
  BY <1>2, <1>3, PeopleSent
<1>5. Steady(tx, rows)
  <2>1. Firm(tx, rows)
    BY DEF Firm, LegIn, SameRow
  <2> QED
    BY <2>1, NoneNew
<1> QED
  BY <1>1, <1>2, <1>4, <1>5, Submitted DEF MirrorsIn

LEMMA SendKeeps ==
    ASSUME ReviewInv, NEW q \in Request, CommitSubmitRequest(q)
    PROVE  Kept /\ Steady(tx, tx')
<1>1. PICK d : d = desk[q]
  OBVIOUS
<1>2. /\ d.tx \in Tx /\ d.by \in Officer /\ tx[d.tx] # NoRow /\ tx[d.tx].kind = "deposit"
      /\ tx[d.tx].status # "posted"
      /\ \E c \in Officer : <<c, "captured", d.tx>> \in audit
  BY <1>1 DEF ReviewInv, RequestIn, CommitSubmitRequest, OnOne
<1>3. RowsIn(tx) /\ IsRow(tx[d.tx])
  BY <1>2 DEF ReviewInv, Holds, RowsIn
<1>4. PICK r : r = [tx[d.tx] EXCEPT !.status = "submitted"]
  OBVIOUS
<1>5. IsRow(r) /\ r.kind = "deposit" /\ SameRow(r, tx[d.tx]) /\ r.status = "submitted"
  BY <1>2, <1>3, <1>4, StatusWritten DEF Becomes, SameRow, Status
<1>6. PICK rows : rows = [u \in Tx |-> IF u = d.tx THEN r ELSE tx[u]]
  OBVIOUS
<1>7. rows = [tx EXCEPT ![d.tx].status = "submitted"]
  BY <1>3, <1>4, <1>6 DEF RowsIn
<1>8. Submit(d.by, d.tx, rows, account, d.chain, d.step, {})
  BY <1>1, <1>7 DEF CommitSubmitRequest
<1> QED
  BY <1>2, <1>5, <1>6, <1>8, PlainSent

LEMMA ResubmittedKeeps ==
    ASSUME ReviewInv, NEW q \in Request, NEW kind, Resubmitted(q, kind)
    PROVE  Kept /\ Steady(tx, tx')
<1>1. PICK d, head : d = desk[q] /\ head = d.tx
  OBVIOUS
<1>2. /\ head \in Tx /\ d.by \in Officer /\ tx[head] # NoRow /\ tx[head].leg # "credit"
      /\ \E c \in Officer : <<c, "captured", head>> \in audit
  BY <1>1 DEF ReviewInv, RequestIn, Resubmitted, OnOne
<1>3. Holds(tx, entry, chain, transfer, audit) /\ RowsIn(tx)
  BY DEF ReviewInv, Holds
<1>4. PICK edited : edited = [u \in Tx |->
                                 IF u = head THEN [tx[u] EXCEPT !.amount = d.amount, !.account = d.account]
                                 ELSE IF u \in EditedWith(head) THEN [tx[u] EXCEPT !.amount = d.amount]
                                 ELSE tx[u]]
  OBVIOUS
<1>5. /\ \A u \in EditedWith(head) : tx[u].status # "posted"
      /\ SubmitAgain(d, edited, account)
  BY <1>1, <1>4 DEF Resubmitted
<1>6. PICK status \in {"submitted", "under_review"} :
        \E sent :
           /\ sent = [edited EXCEPT ![head].status = status]
           /\ \/ /\ tx' = sent /\ Mirrors(sent[head], status)
                 /\ UNCHANGED <<entry, chain, audit>>
              \/ status = "submitted" /\ Submit(d.by, head, sent, account, d.chain, d.step, {})
  BY <1>1, <1>5 DEF SubmitAgain
<1>7. PICK sent :
           /\ sent = [edited EXCEPT ![head].status = status]
           /\ \/ /\ tx' = sent /\ Mirrors(sent[head], status)
                 /\ UNCHANGED <<entry, chain, audit>>
              \/ status = "submitted" /\ Submit(d.by, head, sent, account, d.chain, d.step, {})
  BY <1>6
<1>8. OtherLegs(head) \subseteq EditedWith(head) /\ head \notin OtherLegs(head)
  BY <1>2, OtherLegsAre DEF EditedWith, Credits, OtherLegs
<1>9. EditedWith(head) \subseteq {head} \cup OtherLegs(head)
  BY DEF EditedWith
<1>10. PICK r : r = [tx[head] EXCEPT !.amount = d.amount, !.account = d.account, !.status = status]
  OBVIOUS
<1>11. IsRow(r) /\ SameRow(r, tx[head]) /\ r.status = status /\ r.amount = d.amount
  <2>1. IsRow(tx[head]) /\ status \in Status
    BY <1>2, <1>3 DEF RowsIn, Status
  <2>2. PICK row : row = tx[head]
    OBVIOUS
  <2>3. r = [row EXCEPT !.amount = d.amount, !.account = d.account, !.status = status]
    BY <1>10, <2>2
  <2>4. r = [kind |-> row.kind, status |-> status, account |-> d.account, amount |-> d.amount,
             leg |-> row.leg, transfer |-> row.transfer, reverses |-> row.reverses,
             carried |-> row.carried, claimant |-> row.claimant, benefit |-> row.benefit]
    BY <2>1, <2>2, <2>3 DEF IsRow
  <2> QED
    BY <2>1, <2>2, <2>4 DEF IsRow, SameRow
<1>12. sent = [u \in Tx |-> IF u = head THEN r
                            ELSE IF u \in OtherLegs(head) THEN [tx[u] EXCEPT !.amount = d.amount] ELSE tx[u]]
  BY <1>2, <1>4, <1>7, <1>8, <1>9, <1>10
<1>13. ASSUME NEW u \in OtherLegs(head)
       PROVE  /\ IsRow(sent[u]) /\ SameRow(sent[u], tx[u])
              /\ sent[u].amount = d.amount /\ sent[u].status = tx[u].status
              /\ tx[u].status \in {"submitted", "rejected"}
              /\ tx[u].status = "rejected" => \E o \in Officer : <<o, "rejected", head>> \in audit
  <2>1. u \in Tx /\ u # head /\ IsRow(tx[u])
    BY <1>3 DEF OtherLegs, RowsIn
  <2>2. sent[u] = [tx[u] EXCEPT !.amount = d.amount]
    BY <1>12, <2>1
  <2>3. Debit(head, tx) /\ u \in Credits(head, tx) /\ PairIn(head, tx, audit)
    BY <1>2, <1>3, OtherLegsAre DEF Holds, PairsIn
  <2>4. tx[u].status # "posted"
    BY <1>5, <1>8
  <2> QED
    BY <2>1, <2>2, <2>3, <2>4 DEF IsRow, SameRow, PairIn
<1>14. /\ sent = [t \in Tx |-> sent[t]]
       /\ \A t \in Tx : tx[t] # NoRow => IsRow(sent[t]) /\ SameRow(sent[t], tx[t])
       /\ \A t \in Tx : t # head /\ t \notin OtherLegs(head) => sent[t] = tx[t]
       /\ sent[head] = r
  BY <1>2, <1>3, <1>11, <1>12, <1>13 DEF RowsIn, SameRow
<1>15. /\ RowsIn(sent) /\ Onward(tx, sent) /\ Steady(tx, sent) /\ TransfersIn(sent) /\ PairsIn(sent, audit)
       /\ EntriesIn(entry, sent)
       /\ \A t \in Tx : Debit(t, sent) /\ t # head => transfer[sent[t].transfer] = sent[t].status
       /\ \A t \in Tx : tx[t] = NoRow => sent[t] = NoRow
       /\ \A t \in Tx : t # head /\ sent[t].status \in {"posted", "approved"} => sent[t].status = tx[t].status
  <2>1. sent[head].status # "posted" /\ sent[head].amount = d.amount /\ tx[head].status # "posted"
    BY <1>5, <1>11, <1>14 DEF EditedWith
  <2>2. \A c \in OtherLegs(head) :
            /\ tx[c].status # "posted" /\ (tx[c].status = "rejected" => sent[c].status = "rejected")
            /\ sent[c].amount = sent[head].amount
            /\ sent[c].status \in {"submitted", "rejected"}
            /\ sent[c].status = "rejected" => \E o \in Officer : <<o, "rejected", head>> \in audit
    BY <1>13, <2>1
  <2>3. head \in Tx /\ tx[head] # NoRow /\ tx[head].leg # "credit" /\ audit \subseteq audit
    BY <1>2
  <2>4. /\ sent = [t \in Tx |-> sent[t]]
        /\ \A t \in Tx : tx[t] # NoRow => IsRow(sent[t]) /\ SameRow(sent[t], tx[t])
        /\ \A t \in Tx : t # head /\ t \notin OtherLegs(head) => sent[t] = tx[t]
    BY <1>14
  <2> QED
    BY <2>1, <2>2, <2>3, <2>4, HeadWritten
<1>16. PeopleIn(sent, chain, audit)
  BY <1>11, <1>14, <1>15, PeopleStay
<1>17. sent[head] # NoRow /\ sent[head].leg # "credit" /\ SameRow(sent[head], sent[head])
  BY <1>2, <1>11, <1>14, RowIsThere DEF SameRow
<1>18. CASE /\ tx' = sent /\ Mirrors(sent[head], status)
            /\ UNCHANGED <<entry, chain, audit>>
  <2>1. WorkIn(chain, transfer)
    BY <1>3 DEF Holds
  <2>2. MirrorsIn(sent, transfer') /\ transfer' = [x \in Transfer |-> transfer'[x]]
    BY <1>2, <1>11, <1>14, <1>15, <1>17, <1>18, <2>1, MirrorsFollow
  <2> QED
    BY <1>15, <1>16, <1>18, <2>1, <2>2 DEF Kept, Holds, WorkIn
<1>19. CASE status = "submitted" /\ Submit(d.by, head, sent, account, d.chain, d.step, {})
  <2>1. PeopleIn(sent, [chain EXCEPT ![head] = d.chain], audit \cup {})
    BY <1>2, <1>11, <1>14, <1>16, <1>17, PeopleSent
  <2> QED
    BY <1>2, <1>11, <1>14, <1>15, <1>17, <1>19, <2>1, Submitted
<1> QED
  BY <1>7, <1>18, <1>19

----------------------------------------------------------------------------
(* Decisions, postings and reversals *)

LEMMA ReviewKeeps ==
    ASSUME ReviewInv, NEW q \in Request, CommitReview(q)
    PROVE  Kept /\ Steady(tx, tx')
<1>1. PICK d, head : d = desk[q] /\ head = d.tx
  OBVIOUS
<1>2. /\ head \in Tx /\ d.by \in Officer /\ tx[head] # NoRow /\ tx[head].leg # "credit"
      /\ <<d.by, "captured", head>> \notin audit
      /\ Decision(d)
  BY <1>1 DEF ReviewInv, RequestIn, CommitReview, OnOne
<1>3. Holds(tx, entry, chain, transfer, audit) /\ RowsIn(tx)
  BY DEF ReviewInv, Holds
<1>4. PICK fall : fall = IF d.to = "rejected" THEN {u \in OtherLegs(head) : tx[u].status # "posted"} ELSE {}
  OBVIOUS
<1>5. /\ tx[head].status # "posted"
      /\ tx' = [u \in Tx |-> IF u = head THEN [tx[u] EXCEPT !.status = d.to]
                             ELSE IF u \in fall THEN [tx[u] EXCEPT !.status = "rejected"]
                             ELSE tx[u]]
      /\ Mirrors(tx[head], d.to)
      /\ audit' = audit \cup Records(d.by, d.as, {head})
      /\ UNCHANGED <<entry, chain>>
  BY <1>1, <1>4 DEF CommitReview
<1>6. audit \subseteq audit' /\ \A o, did, t : <<o, did, t>> \in audit' <=> <<o, did, t>> \in audit \/ (o = d.by /\ did = d.as /\ t = head)
  BY <1>5 DEF Records
<1>7. IsRow(tx'[head]) /\ SameRow(tx'[head], tx[head]) /\ tx'[head].status = d.to /\ tx'[head].amount = tx[head].amount
  <2>1. IsRow(tx[head]) /\ d.to \in Status
    BY <1>2, <1>3 DEF RowsIn, Decision, Status
  <2>2. tx'[head] = [tx[head] EXCEPT !.status = d.to]
    BY <1>2, <1>5
  <2> QED
    BY <2>1, <2>2, StatusWritten DEF Becomes
<1>8. ASSUME NEW u \in OtherLegs(head)
      PROVE  /\ IsRow(tx'[u]) /\ SameRow(tx'[u], tx[u])
             /\ tx'[u].amount = tx'[head].amount
             /\ tx'[u].status \in {"submitted", "rejected"}
             /\ tx'[u].status = "rejected" => \E o \in Officer : <<o, "rejected", head>> \in audit'
             /\ tx[u].status # "posted" /\ (tx[u].status = "rejected" => tx'[u].status = "rejected")
  <2>1. u \in Tx /\ u # head /\ IsRow(tx[u])
    BY <1>3 DEF OtherLegs, RowsIn
  <2>2. Debit(head, tx) /\ u \in Credits(head, tx) /\ PairIn(head, tx, audit)
    BY <1>2, <1>3, OtherLegsAre DEF Holds, PairsIn
  <2>3. tx[u].status \in {"submitted", "rejected"} /\ tx[u].amount = tx[head].amount
    BY <1>5, <2>2 DEF PairIn
  <2>4. CASE d.to = "rejected"
    <3>1. Becomes(tx'[u], tx[u], "rejected")
      BY <1>4, <1>5, <2>1, <2>3, <2>4, StatusWritten DEF Status
    <3>2. <<d.by, "rejected", head>> \in audit'
      BY <1>2, <1>6, <2>4 DEF Decision
    <3> QED
      BY <1>2, <1>7, <2>3, <3>1, <3>2 DEF Becomes
  <2>5. CASE d.to # "rejected"
    <3>1. tx'[u] = tx[u]
      BY <1>4, <1>5, <2>1, <2>5
    <3> QED
      BY <1>6, <1>7, <2>1, <2>2, <2>3, <3>1 DEF PairIn, SameRow
  <2> QED
    BY <2>4, <2>5
<1>9. /\ tx' = [t \in Tx |-> tx'[t]]
      /\ \A t \in Tx : t # head /\ t \notin OtherLegs(head) => tx'[t] = tx[t]
  BY <1>4, <1>5
<1>10. \A t \in Tx : tx[t] # NoRow => IsRow(tx'[t]) /\ SameRow(tx'[t], tx[t])
  BY <1>3, <1>7, <1>8, <1>9 DEF RowsIn, SameRow
<1>11. /\ RowsIn(tx') /\ Onward(tx, tx') /\ Steady(tx, tx') /\ TransfersIn(tx') /\ PairsIn(tx', audit')
       /\ EntriesIn(entry, tx')
       /\ \A t \in Tx : Debit(t, tx') /\ t # head => transfer[tx'[t].transfer] = tx'[t].status
       /\ \A t \in Tx : tx[t] = NoRow => tx'[t] = NoRow
       /\ \A t \in Tx : t # head /\ tx'[t].status \in {"posted", "approved"} => tx'[t].status = tx[t].status
  <2>1. tx[head].status # "posted" /\ tx'[head].status # "posted"
    BY <1>2, <1>5, <1>7 DEF Decision
  <2>2. \A c \in OtherLegs(head) :
            /\ tx[c].status # "posted" /\ (tx[c].status = "rejected" => tx'[c].status = "rejected")
            /\ tx'[c].amount = tx'[head].amount
            /\ tx'[c].status \in {"submitted", "rejected"}
            /\ tx'[c].status = "rejected" => \E o \in Officer : <<o, "rejected", head>> \in audit'
    BY <1>8
  <2>3. tx[head] # NoRow /\ tx[head].leg # "credit" /\ audit \subseteq audit'
    BY <1>2, <1>6
  <2> QED
    BY <1>2, <1>9, <1>10, <2>1, <2>2, <2>3, HeadWritten
<1>12. MirrorsIn(tx', transfer') /\ transfer' = [x \in Transfer |-> transfer'[x]]
  <2>1. WorkIn(chain, transfer) /\ SameRow(tx[head], tx'[head]) /\ tx'[head].leg # "credit"
    BY <1>2, <1>3, <1>7 DEF Holds, SameRow
  <2>2. Mirrors(tx[head], tx'[head].status)
    BY <1>5, <1>7
  <2> QED
    BY <1>2, <1>7, <1>11, <2>1, <2>2, MirrorsFollow
<1>13. ASSUME NEW t \in Tx
       PROVE  PeopleOn(t, tx', chain, audit')
  <2>1. PeopleOn(t, tx, chain, audit)
    BY <1>3 DEF Holds, PeopleIn
  <2>2. \A o : <<o, "captured", t>> \in audit' <=> <<o, "captured", t>> \in audit
    BY <1>2, <1>6 DEF Decision
  <2>3. \A o : <<o, "approved", t>> \in audit' => <<o, "approved", t>> \in audit \/ (o = d.by /\ t = head)
    BY <1>6
  <2>4. tx[t] # NoRow => /\ tx'[t] # NoRow /\ tx'[t].kind = tx[t].kind /\ tx'[t].leg = tx[t].leg
    BY <1>11 DEF Onward, SameRow
  <2>5. CASE t = head
    <3>1. tx'[t].status # "posted" /\ (tx'[t].status = "approved" => <<d.by, "approved", t>> \in audit')
      BY <1>2, <1>6, <1>7, <2>5 DEF Decision
    <3> QED
      BY <1>2, <2>1, <2>2, <2>3, <2>4, <2>5, <3>1 DEF PeopleOn
  <2>6. CASE t # head
    <3>1. ASSUME tx'[t].status \in {"posted", "approved"}
          PROVE  tx'[t].status = tx[t].status
      BY <1>11, <2>6, <3>1
    <3>2. chain[t] # NoChain => tx'[t].kind = tx[t].kind /\ tx'[t].leg = tx[t].leg
      BY <2>1, <2>4 DEF PeopleOn
    <3>3. chain[t] # NoChain /\ ThreeOn(t, tx, audit) => ThreeOn(t, tx', audit')
      BY <1>6, <3>2, ThreeStay
    <3>4. tx'[t] = NoRow <=> tx[t] = NoRow
      BY <1>11, <2>4
    <3> QED
      BY <1>6, <2>1, <2>2, <2>3, <2>6, <3>1, <3>2, <3>3, <3>4 DEF PeopleOn
  <2> QED
    BY <2>5, <2>6
<1>14. Holds(tx', entry', chain', transfer', audit')
  BY <1>3, <1>5, <1>11, <1>12, <1>13 DEF Holds, PeopleIn, WorkIn
<1>15. \A o, t : <<o, "captured", t>> \in audit' => <<o, "captured", t>> \in audit \/ tx[t] = NoRow
  BY <1>2, <1>6 DEF Decision
<1> QED
  BY <1>6, <1>11, <1>14, <1>15 DEF Kept

LEMMA PostKeeps ==
    ASSUME ReviewInv, NEW q \in Request, CommitPost(q)
    PROVE  Kept /\ Steady(tx, tx')
<1>1. PICK d, head : d = desk[q] /\ head = d.tx
  OBVIOUS
<1>2. /\ head \in Tx /\ d.by \in Officer /\ tx[head] # NoRow /\ tx[head].leg # "credit"
      /\ <<d.by, "captured", head>> \notin audit
      /\ Approved(d, tx, audit)
  BY <1>1 DEF ReviewInv, RequestIn, CommitPost, OnOne
<1>3. Holds(tx, entry, chain, transfer, audit) /\ RowsIn(tx)
  BY DEF ReviewInv, Holds
<1>4. PICK rows : rows = [tx EXCEPT ![head].amount = AmountNow(tx[head])]
  OBVIOUS
<1>5. /\ PostAndEnd(head, rows, account, step)
      /\ audit' = audit \cup Records(d.by, "posted", PostedWith(head, rows))
      /\ UNCHANGED chain
  BY <1>1, <1>4 DEF CommitPost
<1>6. /\ audit \subseteq audit'
      /\ \A o, did, t : <<o, did, t>> \in audit' => <<o, did, t>> \in audit \/ did = "posted"
      /\ <<d.by, "posted", head>> \in audit'
  BY <1>5 DEF Records, PostedWith
<1>7. /\ rows = [t \in Tx |-> rows[t]]
      /\ \A t \in Tx : t # head => rows[t] = tx[t]
      /\ rows[head] = [tx[head] EXCEPT !.amount = AmountNow(tx[head])]
  BY <1>2, <1>3, <1>4 DEF RowsIn
<1>8. /\ IsRow(rows[head]) /\ SameRow(rows[head], tx[head]) /\ rows[head].status = tx[head].status
      /\ rows[head].amount = AmountNow(tx[head])
  <2>1. IsRow(tx[head])
    BY <1>2, <1>3 DEF RowsIn
  <2> QED
    BY <1>7, <2>1 DEF IsRow, SameRow
<1>9. tx[head].status \in {"submitted", "approved"}
  BY <1>5, <1>8 DEF PostAndEnd, Enter, CanPost, PostedWith
<1>10. ASSUME NEW u \in OtherLegs(head)
       PROVE  /\ IsRow(rows[u]) /\ SameRow(rows[u], tx[u])
              /\ rows[u].amount = rows[head].amount
              /\ rows[u].status \in {"submitted", "rejected"}
              /\ rows[u].status = "rejected" => \E o \in Officer : <<o, "rejected", head>> \in audit
              /\ tx[u].status = rows[u].status
  <2>1. u \in Tx /\ u # head /\ IsRow(tx[u])
    BY <1>3 DEF OtherLegs, RowsIn
  <2>2. Debit(head, tx) /\ u \in Credits(head, tx) /\ PairIn(head, tx, audit)
    BY <1>2, <1>3, OtherLegsAre DEF Holds, PairsIn
  <2>3. AmountNow(tx[head]) = tx[head].amount
    BY <2>2 DEF AmountNow, ExitKind, SettlesTogether, Debit, LegIn
  <2> QED
    BY <1>7, <1>8, <1>9, <2>1, <2>2, <2>3 DEF PairIn, SameRow
<1>11. \A t \in Tx : tx[t] # NoRow => IsRow(rows[t]) /\ SameRow(rows[t], tx[t])
  BY <1>3, <1>7, <1>8 DEF RowsIn, SameRow
<1>12. /\ RowsIn(rows) /\ Onward(tx, rows) /\ Steady(tx, rows) /\ TransfersIn(rows) /\ PairsIn(rows, audit)
       /\ EntriesIn(entry, rows)
       /\ \A t \in Tx : Debit(t, rows) /\ t # head => transfer[rows[t].transfer] = rows[t].status
       /\ \A t \in Tx : tx[t] = NoRow => rows[t] = NoRow
       /\ \A t \in Tx : t # head /\ rows[t].status \in {"posted", "approved"} => rows[t].status = tx[t].status
  <2>1. tx[head].status # "posted" /\ rows[head].status # "posted"
    BY <1>8, <1>9
  <2>2. \A c \in OtherLegs(head) :
            /\ tx[c].status # "posted" /\ (tx[c].status = "rejected" => rows[c].status = "rejected")
            /\ rows[c].amount = rows[head].amount
            /\ rows[c].status \in {"submitted", "rejected"}
            /\ rows[c].status = "rejected" => \E o \in Officer : <<o, "rejected", head>> \in audit
    BY <1>10
  <2>3. tx[head] # NoRow /\ tx[head].leg # "credit" /\ audit \subseteq audit
    BY <1>2
  <2> QED
    BY <1>2, <1>7, <1>11, <2>1, <2>2, <2>3, HeadWritten
<1>13. PeopleIn(rows, chain, audit)
  BY <1>8, <1>12, PeopleStay
\* Three people: who captured it, who approved it before this request began,
\* and the officer of this request.
<1>14. ASSUME chain[head] # NoChain
       PROVE  ThreeOn(head, rows, audit')
  <2>1. PICK c \in Officer : <<c, "captured", head>> \in audit
    BY <1>3, <1>14, <1>2 DEF Holds, PeopleIn, PeopleOn
  <2>2. PICK a \in Officer : /\ <<a, "approved", head>> \in audit
                             /\ a # d.by \/ (tx[head].kind = "deposit" /\ <<App, "captured", head>> \in audit)
    BY <1>1, <1>2 DEF Approved
  <2>3. \A o : <<o, "approved", head>> \in audit => <<o, "captured", head>> \notin audit
    BY <1>2, <1>3 DEF Holds, PeopleIn, PeopleOn
  <2>4. rows[head].kind = tx[head].kind
    BY <1>8 DEF SameRow
  <2>5. CASE a # d.by
    <3>1. c # a /\ c # d.by
      BY <1>2, <2>1, <2>2, <2>3
    <3> QED
      BY <1>2, <1>6, <2>1, <2>2, <2>5, <3>1 DEF ThreeOn
  <2>6. CASE tx[head].kind = "deposit" /\ <<App, "captured", head>> \in audit
    <3>1. App \in Officer /\ App # a /\ App # d.by
      BY <1>2, <2>2, <2>3, <2>6, OfficerAssumption
    <3> QED
      BY <1>2, <1>6, <2>2, <2>4, <2>6, <3>1 DEF ThreeOn
  <2> QED
    BY <2>2, <2>5, <2>6
<1>15. PeopleIn(tx', chain, audit')
  BY <1>2, <1>5, <1>6, <1>12, <1>13, <1>14, PostKeepsPeople
<1>16. RowsIn(tx') /\ Onward(rows, tx') /\ Steady(rows, tx') /\ EntriesIn(entry', tx')
  BY <1>2, <1>5, <1>12, PostKeepsRows
<1>17. TransfersIn(tx') /\ PairsIn(tx', audit') /\ MirrorsIn(tx', transfer')
  <2>1. rows[head].leg # "credit"
    BY <1>2, <1>8 DEF SameRow
  <2> QED
    BY <1>2, <1>5, <1>6, <1>12, <2>1, PostKeepsLegs
<1>18. transfer' = [x \in Transfer |-> transfer'[x]]
  BY <1>5 DEF PostAndEnd
<1>19. Holds(tx', entry', chain', transfer', audit')
  BY <1>3, <1>5, <1>15, <1>16, <1>17, <1>18 DEF Holds, WorkIn
<1>20. Onward(tx, tx')
  BY <1>12, <1>16 DEF Onward, SameRow
<1>21. Steady(tx, tx')
  BY <1>12, <1>16, SteadyOn
<1> QED
  BY <1>6, <1>19, <1>20, <1>21 DEF Kept

LEMMA ReverseKeeps ==
    ASSUME ReviewInv, NEW q \in Request, CommitReverse(q)
    PROVE  Kept /\ Firm(tx, tx') /\ LegsCome(tx, tx')
<1>1. PICK d, targets : d = desk[q] /\ targets = d.targets
  OBVIOUS
<1>2. targets \in SUBSET Tx /\ \A t \in targets : tx[t] # NoRow
  BY <1>1 DEF ReviewInv, RequestIn, CommitReverse
<1>3. Holds(tx, entry, chain, transfer, audit) /\ RowsIn(tx)
  BY DEF ReviewInv, Holds
<1>4. PICK id \in [desk[q].targets -> {u \in Spare : tx[u] = NoRow}] :
           LET names == {id[t] : t \in desk[q].targets}
           IN  /\ Cardinality(names) = Cardinality(desk[q].targets)
               /\ PostAll(names,
                          [u \in Tx |-> IF u \in names
                                        THEN ReversalOf(CHOOSE t \in desk[q].targets : id[t] = u)
                                        ELSE tx[u]],
                          account)
               /\ audit' = audit \cup Records(desk[q].by, "reversed", desk[q].targets)
                                \cup Records(desk[q].by, "posted", names)
  BY Zenon DEF CommitReverse
<1> DEFINE ids == {id[t] : t \in desk[q].targets}
           rows == [u \in Tx |-> IF u \in ids
                                 THEN ReversalOf(CHOOSE t \in desk[q].targets : id[t] = u)
                                 ELSE tx[u]]
<1>5. /\ PostAll(ids, rows, account)
      /\ audit' = audit \cup Records(desk[q].by, "reversed", desk[q].targets)
                       \cup Records(desk[q].by, "posted", ids)
  BY <1>4, Zenon
<1>20. ids = {id[t] : t \in desk[q].targets}
  OBVIOUS
<1>21. rows = [u \in Tx |-> IF u \in ids
                            THEN ReversalOf(CHOOSE t \in desk[q].targets : id[t] = u)
                            ELSE tx[u]]
  OBVIOUS
<1> HIDE DEF ids, rows
<1>6. UNCHANGED <<chain, transfer>>
  BY DEF CommitReverse
<1>7. ids \in SUBSET Tx /\ \A u \in ids : tx[u] = NoRow
  BY <1>4, <1>20, SpareAssumption
<1>8. ASSUME NEW u \in ids
      PROVE  IsRow(rows[u]) /\ rows[u].kind = "reversal"
  <2>1. PICK t : t = CHOOSE x \in targets : id[x] = u
    OBVIOUS
  <2>2. t \in targets
    BY <1>1, <1>8, <1>20, <2>1
  <2>3. rows[u] = [tx[t] EXCEPT !.kind = "reversal", !.status = "submitted", !.leg = "none",
                              !.transfer = NoTransfer, !.reverses = t, !.carried = FALSE]
    BY <1>1, <1>7, <1>8, <1>21, <2>1 DEF ReversalOf
  <2>4. PICK row : row = tx[t] /\ IsRow(row)
    BY <1>2, <1>3, <2>2 DEF RowsIn
  <2>5. rows[u] = [kind |-> "reversal", status |-> "submitted", account |-> row.account, amount |-> row.amount,
                   leg |-> "none", transfer |-> NoTransfer, reverses |-> t,
                   carried |-> FALSE, claimant |-> row.claimant, benefit |-> row.benefit]
    BY <2>3, <2>4 DEF IsRow
  <2> QED
    BY <1>2, <2>2, <2>5, NoTxAssumption DEF IsRow, Status
<1>9. /\ rows = [u \in Tx |-> rows[u]] /\ \A u \in Tx \ ids : rows[u] = tx[u]
      /\ tx' = [u \in Tx |-> tx'[u]] /\ \A u \in Tx \ ids : tx'[u] = tx[u]
      /\ \A u \in ids : tx'[u] = [rows[u] EXCEPT !.status = "posted"]
  <2>1. tx' = [u \in Tx |-> IF u \in ids THEN [rows[u] EXCEPT !.status = "posted"] ELSE rows[u]]
    BY <1>5 DEF PostAll, RowsAfter
  <2>2. rows = [u \in Tx |-> rows[u]] /\ \A u \in Tx \ ids : rows[u] = tx[u]
    BY <1>21
  <2> QED
    BY <1>7, <2>1, <2>2
<1>10. \A u \in ids : /\ IsRow(tx'[u]) /\ tx'[u].kind = "reversal" /\ SameRow(tx'[u], rows[u])
                      /\ tx'[u] # NoRow /\ tx'[u].status = "posted"
  <2>1. ASSUME NEW u \in ids
        PROVE  Becomes(tx'[u], rows[u], "posted")
    <3>1. PICK r : r = rows[u] /\ IsRow(r)
      BY <1>8
    <3>2. tx'[u] = [r EXCEPT !.status = "posted"]
      BY <1>9, <3>1
    <3>3. Becomes([r EXCEPT !.status = "posted"], r, "posted")
      BY <3>1, StatusWritten DEF Status
    <3> QED
      BY <3>1, <3>2, <3>3
  <2> QED
    BY <1>8, <2>1, RowIsThere DEF Becomes, SameRow
<1>11. \A u \in Tx : rows[u] # tx[u] => IsRow(rows[u]) /\ rows[u].kind # "transfer_leg" /\ tx[u] = NoRow
  BY <1>7, <1>8, <1>9
<1>12. RowsIn(rows) /\ EntriesIn(entry, rows)
  BY <1>9, <1>11, PlainRowsWritten
<1>13. \A u \in Tx : tx'[u] # tx[u] => IsRow(tx'[u]) /\ tx'[u].kind # "transfer_leg" /\ tx[u] = NoRow
  BY <1>7, <1>9, <1>10
<1>14. /\ RowsIn(tx') /\ Onward(tx, tx') /\ TransfersIn(tx') /\ PairsIn(tx', audit)
       /\ MirrorsIn(tx', transfer)
  BY <1>9, <1>13, PlainRowsWritten
<1>15. EntriesIn(entry', tx')
  <2>1. Onward(rows, tx') /\ \A t \in ids : rows[t] # NoRow
    BY <1>8, <1>9, <1>10, RowIsThere DEF Onward, SameRow
  <2> QED
    BY <1>5, <1>7, <1>12, <2>1, EntersWell DEF PostAll
<1>16. /\ audit \subseteq audit'
       /\ \A o, did, t : <<o, did, t>> \in audit' => <<o, did, t>> \in audit \/ did \in {"reversed", "posted"}
  BY <1>5 DEF Records
<1>17. ASSUME NEW t \in Tx
       PROVE  PeopleOn(t, tx', chain, audit')
  <2>1. PeopleOn(t, tx, chain, audit)
    BY <1>3 DEF Holds, PeopleIn
  <2>2. \A o : /\ <<o, "captured", t>> \in audit' <=> <<o, "captured", t>> \in audit
               /\ <<o, "approved", t>> \in audit' <=> <<o, "approved", t>> \in audit
    BY <1>16
  <2>3. CASE t \in ids
    <3>1. tx'[t] # NoRow /\ chain[t] = NoChain /\ \A o : <<o, "captured", t>> \notin audit /\ <<o, "approved", t>> \notin audit
      BY <1>7, <1>10, <2>1, <2>3 DEF PeopleOn
    <3>2. tx'[t].status # "approved"
      BY <1>10, <2>3
    <3> QED
      BY <2>2, <3>1, <3>2 DEF PeopleOn
  <2>4. CASE t \notin ids
    <3>1. tx'[t] = tx[t]
      BY <1>9, <2>4
    <3>2. ThreeOn(t, tx, audit) => ThreeOn(t, tx', audit')
      BY <1>16, <3>1, ThreeStay
    <3> QED
      BY <1>16, <2>1, <2>2, <3>1, <3>2 DEF PeopleOn
  <2> QED
    BY <2>3, <2>4
<1>18. PeopleIn(tx', chain, audit') /\ PairsIn(tx', audit')
  BY <1>14, <1>16, <1>17, PairsStay DEF PeopleIn
<1>19. Holds(tx', entry', chain', transfer', audit')
  BY <1>3, <1>6, <1>14, <1>15, <1>18 DEF Holds
<1>22. Firm(tx, tx') /\ LegsCome(tx, tx')
  <2>1. \A t \in Tx : tx[t] # NoRow => tx'[t] = tx[t]
    BY <1>7, <1>9
  <2> QED
    BY <1>13, <2>1 DEF Firm, LegsCome, LegIn, NoRow
<1> QED
  BY <1>14, <1>16, <1>19, <1>22 DEF Kept

----------------------------------------------------------------------------
(* Exits *)

LEMMA StartKeeps ==
    ASSUME ReviewInv, NEW q \in Request, NEW kind, Started(q, kind)
    PROVE  Kept /\ Steady(tx, tx')
<1>1. PICK d : d = desk[q]
  OBVIOUS
<1>2. /\ d.by \in Officer /\ d.tx \in Tx
      /\ IsRow(d.row) /\ d.row.kind \in ExitKind /\ d.row.status = "draft"
  BY <1>1 DEF ReviewInv, RequestIn, Started
<1>3. d.row.kind \notin {"transfer_leg", "reversal"}
  BY <1>2 DEF ExitKind
<1>4. /\ tx[d.tx] = NoRow /\ tx' = [tx EXCEPT ![d.tx] = d.row]
      /\ audit' = audit \cup Records(d.by, "captured", {d.tx})
      /\ UNCHANGED <<entry, chain, transfer>>
  BY <1>1 DEF Started
<1> QED
  BY <1>2, <1>3, <1>4, CaptureKeeps

LEMMA WithdrawKeeps ==
    ASSUME ReviewInv, NEW q \in Request, NEW kind, Withdrawn(q, kind)
    PROVE  Kept /\ Steady(tx, tx')
<1>1. PICK t : t = desk[q].tx
  OBVIOUS
<1>2. t \in Tx /\ tx[t] # NoRow /\ tx[t].kind \in ExitKind /\ tx[t].status # "posted"
  BY <1>1 DEF ReviewInv, RequestIn, OnOne, Withdrawn
<1>3. RowsIn(tx) /\ IsRow(tx[t])
  BY <1>2 DEF ReviewInv, Holds, RowsIn
<1>4. PICK r : r = [tx[t] EXCEPT !.status = "cancelled"]
  OBVIOUS
<1>5. IsRow(r) /\ r.kind # "transfer_leg" /\ SameRow(r, tx[t]) /\ r.status = "cancelled"
  BY <1>2, <1>3, <1>4, StatusWritten DEF Becomes, SameRow, Status, ExitKind
<1>6. tx' = [u \in Tx |-> IF u = t THEN r ELSE tx[u]] /\ UNCHANGED <<entry, chain, transfer, audit>>
  BY <1>1, <1>3, <1>4 DEF Withdrawn, RowsIn
<1> QED
  BY <1>2, <1>5, <1>6, RowWrittenKeeps

\* The rows an exit is sent off with.
SentRow(d, status) == [tx[d.tx] EXCEPT !.amount = d.amount, !.status = status]

LEMMA SentRowIs ==
    ASSUME NEW d, IsRow(tx[d.tx]), tx[d.tx].kind \in ExitKind, NEW status \in Status
    PROVE  /\ IsRow(SentRow(d, status)) /\ SameRow(SentRow(d, status), tx[d.tx])
           /\ SentRow(d, status).kind \in ExitKind /\ SentRow(d, status).kind # "transfer_leg"
           /\ SentRow(d, status).status = status
           /\ SentRow(d, status).account = tx[d.tx].account
           /\ SentRow(d, status).claimant = tx[d.tx].claimant
<1>1. PICK r : r = tx[d.tx]
  OBVIOUS
<1>2. PICK s : s = [r EXCEPT !.amount = d.amount]
  OBVIOUS
<1>3. IsRow(s) /\ SameRow(s, r) /\ s.account = r.account /\ s.claimant = r.claimant
  BY <1>1, <1>2 DEF IsRow, SameRow
<1>4. PICK u : u = [s EXCEPT !.status = status]
  OBVIOUS
<1>5. IsRow(u) /\ SameRow(u, s) /\ u.status = status /\ u.account = s.account /\ u.claimant = s.claimant
  BY <1>3, <1>4 DEF IsRow, SameRow
<1>6. SentRow(d, status) = u
  BY <1>1, <1>2, <1>4 DEF SentRow
<1> QED
  BY <1>1, <1>3, <1>5, <1>6 DEF SameRow, ExitKind

\* It waits at the step that returned it, or is sent off as Submit sends it.
LEMMA SentOff ==
    ASSUME ReviewInv, NEW q \in Request, NEW kind, Sent(q, kind), NEW d, d = desk[q]
    PROVE  /\ d.tx \in Tx /\ d.by \in Officer /\ tx[d.tx] # NoRow /\ IsRow(tx[d.tx])
           /\ tx[d.tx].kind \in ExitKind /\ tx[d.tx].status # "posted"
           /\ \E c \in Officer : <<c, "captured", d.tx>> \in audit
           /\ \E accts, rows :
                 /\ accts = [a \in Account |-> IF a \in d.settles /\ account[a] = "active"
                                               THEN "closing" ELSE account[a]]
                 /\ \/ /\ \E status \in {"submitted", "under_review"} :
                               rows = [u \in Tx |-> IF u = d.tx THEN SentRow(d, status) ELSE tx[u]]
                       /\ tx' = rows /\ account' = accts
                       /\ UNCHANGED <<holder, entry, cache, chain, transfer, audit>>
                    \/ /\ rows = [u \in Tx |-> IF u = d.tx THEN SentRow(d, "submitted") ELSE tx[u]]
                       /\ Submit(d.by, d.tx, rows, accts, d.chain, d.step, {})
<1>1. /\ d.tx \in Tx /\ d.by \in Officer /\ tx[d.tx] # NoRow
      /\ tx[d.tx].kind \in ExitKind /\ tx[d.tx].status # "posted"
      /\ \E c \in Officer : <<c, "captured", d.tx>> \in audit
  BY DEF ReviewInv, RequestIn, OnOne, Sent
<1>2. RowsIn(tx) /\ IsRow(tx[d.tx])
  BY <1>1 DEF ReviewInv, Holds, RowsIn
<1>3. PICK accts, rows : /\ accts = [a \in Account |-> IF a \in d.settles /\ account[a] = "active"
                                                     THEN "closing" ELSE account[a]]
                         /\ rows = [tx EXCEPT ![d.tx].amount = d.amount]
  OBVIOUS
<1>4. IF d.again THEN SubmitAgain(d, rows, accts)
      ELSE Submit(d.by, d.tx, [rows EXCEPT ![d.tx].status = "submitted"], accts, d.chain, d.step, {})
  BY Zenon, <1>3 DEF Sent
<1>5. ASSUME NEW status
      PROVE  [rows EXCEPT ![d.tx].status = status] = [u \in Tx |-> IF u = d.tx THEN SentRow(d, status) ELSE tx[u]]
  BY <1>1, <1>2, <1>3 DEF RowsIn, SentRow
<1>6. CASE d.again
  <2>1. SubmitAgain(d, rows, accts)
    BY <1>4, <1>6
  <2>2. PICK reenters, status :
          /\ status = IF reenters /\ d.leftStep # FirstStep(d.chain) THEN "under_review" ELSE "submitted"
          /\ IF reenters
             THEN /\ tx' = [rows EXCEPT ![d.tx].status = status]
                  /\ account' = accts
                  /\ Mirrors([rows EXCEPT ![d.tx].status = status][d.tx], status)
                  /\ UNCHANGED <<holder, entry, cache, chain, step, audit>>
             ELSE Submit(d.by, d.tx, [rows EXCEPT ![d.tx].status = status], accts, d.chain, d.step, {})
    BY Zenon, <2>1 DEF SubmitAgain
  <2>3. PICK sent : sent = [u \in Tx |-> IF u = d.tx THEN SentRow(d, status) ELSE tx[u]]
    OBVIOUS
  <2>4. sent = [rows EXCEPT ![d.tx].status = status] /\ sent[d.tx] = SentRow(d, status)
    BY <1>1, <1>5, <2>3
  <2>5. status \in {"submitted", "under_review"} /\ (~reenters => status = "submitted")
    BY <2>2
  <2>6. CASE reenters
    <3>1. Mirrors(SentRow(d, status), status) /\ SentRow(d, status).kind # "transfer_leg"
      BY <1>1, <1>2, <2>2, <2>4, <2>5, <2>6, SentRowIs DEF Status
    <3>2. UNCHANGED <<holder, entry, cache, chain, transfer, audit>> /\ tx' = sent /\ account' = accts
      BY <2>2, <2>4, <2>6, <3>1 DEF Mirrors
    <3> QED
      BY <1>1, <1>2, <1>3, <2>3, <2>5, <3>2
  <2>7. CASE ~reenters
    <3>1. Submit(d.by, d.tx, sent, accts, d.chain, d.step, {})
      BY <2>2, <2>4, <2>7
    <3> QED
      BY <1>1, <1>2, <1>3, <2>3, <2>5, <2>7, <3>1
  <2> QED
    BY <2>6, <2>7
<1>7. CASE ~d.again
  <2>1. PICK sent : sent = [u \in Tx |-> IF u = d.tx THEN SentRow(d, "submitted") ELSE tx[u]]
    OBVIOUS
  <2>2. Submit(d.by, d.tx, sent, accts, d.chain, d.step, {})
    BY <1>4, <1>5, <1>7, <2>1
  <2> QED
    BY <1>1, <1>2, <1>3, <2>1, <2>2
<1> QED
  BY <1>6, <1>7

LEMMA ExitSentKeeps ==
    ASSUME ReviewInv, NEW q \in Request, NEW kind, Sent(q, kind)
    PROVE  Kept /\ Steady(tx, tx')
<1>1. PICK d : d = desk[q]
  OBVIOUS
<1>2. /\ d.tx \in Tx /\ d.by \in Officer /\ tx[d.tx] # NoRow /\ IsRow(tx[d.tx])
      /\ tx[d.tx].kind \in ExitKind /\ tx[d.tx].status # "posted"
      /\ \E c \in Officer : <<c, "captured", d.tx>> \in audit
  BY <1>1, SentOff
<1>3. PICK accts, rows :
         \/ /\ \E status \in {"submitted", "under_review"} :
                   rows = [u \in Tx |-> IF u = d.tx THEN SentRow(d, status) ELSE tx[u]]
            /\ tx' = rows
            /\ UNCHANGED <<entry, chain, transfer, audit>>
         \/ /\ rows = [u \in Tx |-> IF u = d.tx THEN SentRow(d, "submitted") ELSE tx[u]]
            /\ Submit(d.by, d.tx, rows, accts, d.chain, d.step, {})
  BY <1>1, SentOff
<1>4. ASSUME NEW status \in {"submitted", "under_review"},
             tx' = [u \in Tx |-> IF u = d.tx THEN SentRow(d, status) ELSE tx[u]],
             UNCHANGED <<entry, chain, transfer, audit>>
      PROVE  Kept /\ Steady(tx, tx')
  <2>1. /\ IsRow(SentRow(d, status)) /\ SameRow(SentRow(d, status), tx[d.tx])
        /\ SentRow(d, status).kind # "transfer_leg" /\ SentRow(d, status).status = status
    BY <1>2, <1>4, SentRowIs DEF Status
  <2> QED
    BY <1>2, <1>4, <2>1, RowWrittenKeeps
<1>5. ASSUME rows = [u \in Tx |-> IF u = d.tx THEN SentRow(d, "submitted") ELSE tx[u]],
             Submit(d.by, d.tx, rows, accts, d.chain, d.step, {})
      PROVE  Kept /\ Steady(tx, tx')
  <2>1. /\ IsRow(SentRow(d, "submitted")) /\ SameRow(SentRow(d, "submitted"), tx[d.tx])
        /\ SentRow(d, "submitted").kind # "transfer_leg" /\ SentRow(d, "submitted").status = "submitted"
    BY <1>2, SentRowIs DEF Status
  <2> QED
    BY <1>2, <1>5, <2>1, PlainSent
<1> QED
  BY <1>3, <1>4, <1>5

\* What of the invariant a step of an exit's second part keeps.
LEMMA ExitKeeps ==
    ASSUME ReviewInv, NEW q \in Request, ExitCommits(q)
    PROVE  Kept /\ Steady(tx, tx') /\ Sits(q, Idle)
<1>1. ASSUME NEW kind, Started(q, kind) \/ Withdrawn(q, kind) \/ Sent(q, kind)
      PROVE  Kept /\ Steady(tx, tx') /\ Sits(q, Idle)
  BY <1>1, StartKeeps, WithdrawKeeps, ExitSentKeeps DEF Started, Withdrawn, Sent
<1> QED
  BY <1>1 DEF ExitCommits, CommitStartClosure, CommitStartResignation, CommitStartDemise,
              CommitSubmitClosure, CommitSubmitResignation, CommitSubmitDemise,
              CommitCancelClosure, CommitCancelResignation, CommitCancelDemise

----------------------------------------------------------------------------
(* First parts *)

LEMMA Begun ==
    ASSUME ReviewInv, NEW q \in Request, NEW d, Sits(q, d), UNCHANGED <<tables, work>>,
           RequestIn(d, tx, audit)
    PROVE  ReviewInv'
<1>1. desk' = [p \in Request |-> IF p = q THEN d ELSE desk[p]]
  BY DEF ReviewInv, Sits
<1>2. UNCHANGED <<tx, entry, chain, transfer, audit>>
  BY DEF tables, work
<1>3. \A p \in Request : RequestIn(desk'[p], tx, audit)
  BY <1>1 DEF ReviewInv
<1> QED
  BY <1>1, <1>2, <1>3 DEF ReviewInv

LEMMA RecordBegins ==
    ASSUME ReviewInv, NEW q \in Request, NEW o \in Captors,
           BeginDeposit(q, o) \/ BeginWithdrawal(q, o) \/ BeginTransfer(q, o) \/ BeginRequest(q, o)
    PROVE  ReviewInv'
<1>1. o \in Officer
  BY OfficerAssumption
<1>2. ASSUME NEW form \in Forms, Routes(q, o, form)
      PROVE  ReviewInv'
  <2>1. PICK d : d = [by |-> o, does |-> "record", form |-> form, chain |-> Route(form[Lead(form)].amount),
                      step |-> FirstStep(Route(form[Lead(form)].amount))]
    OBVIOUS
  <2>2. Sits(q, d) /\ UNCHANGED <<tables, work>>
    BY <1>2, <2>1 DEF Routes
  <2>3. d.by = o /\ d.does = "record" /\ d.form = form
    BY <2>1
  <2>4. RequestIn(d, tx, audit)
    BY <1>1, <2>3 DEF RequestIn
  <2> QED
    BY <2>2, <2>4, Begun
<1>3. CASE BeginRequest(q, o)
  <2>1. PICK form \in Drafted : Sits(q, [by |-> o, does |-> "draft", form |-> form])
    BY <1>3 DEF BeginRequest
  <2>2. RequestIn([by |-> o, does |-> "draft", form |-> form], tx, audit)
    BY <1>1 DEF RequestIn
  <2> QED
    BY <1>3, <2>1, <2>2, Begun DEF BeginRequest
<1> QED
  BY <1>2, <1>3 DEF BeginDeposit, BeginWithdrawal, BeginTransfer

LEMMA DraftBegins ==
    ASSUME ReviewInv, NEW q \in Request, NEW o \in Captors, NEW t \in Tx,
           BeginUpdateRequest(q, o, t) \/ BeginSubmitRequest(q, o, t) \/ BeginCancelRequest(q, o, t)
    PROVE  ReviewInv'
<1>1. o \in Officer
  BY OfficerAssumption
<1>2. OwnDraft(o, t)
  BY DEF BeginUpdateRequest, BeginSubmitRequest, BeginCancelRequest
<1>3. /\ tx[t] # NoRow /\ tx[t].kind = "deposit" /\ tx[t].leg # "credit"
      /\ <<o, "captured", t>> \in audit
  <2>1. RowsIn(tx) /\ tx[t].status \in Status
    BY <1>2 DEF ReviewInv, Holds, OwnDraft, Status
  <2> QED
    BY <1>2, <2>1, RowIsThere DEF RowsIn, IsRow, OwnDraft, Did
<1>4. ASSUME NEW d, Sits(q, d), UNCHANGED <<tables, work>>, d.by = o, d.tx = t, d.does \in {"edit", "send", "drop"}
      PROVE  ReviewInv'
  <2>1. RequestIn(d, tx, audit)
    BY <1>1, <1>3, <1>4 DEF RequestIn, OnOne
  <2> QED
    BY <1>4, <2>1, Begun
<1>5. CASE BeginUpdateRequest(q, o, t)
  <2>1. PICK amount : Sits(q, [by |-> o, does |-> "edit", tx |-> t, amount |-> amount])
    BY <1>5 DEF BeginUpdateRequest
  <2>2. PICK d : d = [by |-> o, does |-> "edit", tx |-> t, amount |-> amount]
    OBVIOUS
  <2>3. d.by = o /\ d.tx = t /\ d.does = "edit" /\ Sits(q, d) /\ UNCHANGED <<tables, work>>
    BY <1>5, <2>1, <2>2 DEF BeginUpdateRequest
  <2> QED
    BY <1>4, <2>3
<1>6. CASE BeginSubmitRequest(q, o, t)
  <2>1. PICK d : d = [by |-> o, does |-> "send", tx |-> t, chain |-> Route(tx[t].amount),
                      step |-> FirstStep(Route(tx[t].amount))]
    OBVIOUS
  <2>2. d.by = o /\ d.tx = t /\ d.does = "send" /\ Sits(q, d) /\ UNCHANGED <<tables, work>>
    BY <1>6, <2>1 DEF BeginSubmitRequest
  <2> QED
    BY <1>4, <2>2
<1>7. CASE BeginCancelRequest(q, o, t)
  <2>1. PICK d : d = [by |-> o, does |-> "drop", tx |-> t]
    OBVIOUS
  <2>2. d.by = o /\ d.tx = t /\ d.does = "drop" /\ Sits(q, d) /\ UNCHANGED <<tables, work>>
    BY <1>7, <2>1 DEF BeginCancelRequest
  <2> QED
    BY <1>4, <2>2
<1> QED
  BY <1>5, <1>6, <1>7

LEMMA ResubmitBegins ==
    ASSUME ReviewInv, NEW q \in Request, NEW o \in Captors, NEW t \in Tx,
           \/ BeginResubmitDeposit(q, o, t) \/ BeginResubmitWithdrawal(q, o, t)
           \/ BeginResubmitTransfer(q, o, t)
    PROVE  ReviewInv'
<1>1. o \in Officer
  BY OfficerAssumption
<1>2. /\ tx[t].status = "returned"
      /\ tx[t].kind \in {"deposit", "withdrawal"} \/ tx[t].leg = "debit"
  BY DEF BeginResubmitDeposit, BeginResubmitWithdrawal, BeginResubmitTransfer
<1>3. tx[t] # NoRow /\ tx[t].leg # "credit"
  <2>1. RowsIn(tx) /\ tx[t].status \in Status
    BY <1>2 DEF ReviewInv, Holds, Status
  <2> QED
    BY <1>2, <2>1, RowIsThere DEF RowsIn, IsRow
<1>4. PICK a, amount : Corrects(q, o, t, a, amount)
  BY DEF BeginResubmitDeposit, BeginResubmitWithdrawal, BeginResubmitTransfer
<1>5. PICK d : d = [by |-> o, does |-> "resubmit", tx |-> t, amount |-> amount, account |-> a,
                    chain |-> Route(amount), step |-> FirstStep(Route(amount)),
                    leftChain |-> chain[t], leftStep |-> step[t]]
  OBVIOUS
<1>6. d.by = o /\ d.tx = t /\ d.does = "resubmit"
  BY <1>5
<1>7. Sits(q, d) /\ UNCHANGED <<tables, work>> /\ <<o, "captured", t>> \in audit
  BY <1>4, <1>5 DEF Corrects, Did
<1>8. RequestIn(d, tx, audit)
  BY <1>1, <1>3, <1>6, <1>7 DEF RequestIn, OnOne
<1> QED
  BY <1>7, <1>8, Begun

LEMMA DecisionBegins ==
    ASSUME ReviewInv, NEW q \in Request, NEW o \in Officer, NEW t \in Tx, BeginReview(q, o, t)
    PROVE  ReviewInv'
<1>1. /\ tx[t].status \in {"submitted", "under_review"}
      /\ StepsLeft(t) # {}
      /\ <<o, "captured", t>> \notin audit
  BY DEF BeginReview, Segregated, Did
<1>2. tx[t] # NoRow /\ tx[t].leg # "credit"
  <2>1. RowsIn(tx) /\ PeopleOn(t, tx, chain, audit) /\ tx[t].status \in Status /\ chain[t] # NoChain
    BY <1>1 DEF ReviewInv, Holds, PeopleIn, Status, StepsLeft
  <2> QED
    BY <2>1, RowIsThere DEF RowsIn, PeopleOn
<1>3. PICK e \in Outcomes(t) :
          Sits(q, [by |-> o, does |-> "review", tx |-> t, to |-> e.to, step |-> e.step, as |-> e.as])
  BY DEF BeginReview
<1>4. PICK d : d = [by |-> o, does |-> "review", tx |-> t, to |-> e.to, step |-> e.step, as |-> e.as]
  OBVIOUS
<1>5. d.by = o /\ d.tx = t /\ d.does = "review" /\ d.to = e.to /\ d.as = e.as
  BY <1>4
<1>6. <<e.to, e.as>> \in {<<"approved", "approved">>, <<"under_review", "reviewed">>,
                         <<"returned", "returned">>, <<"rejected", "rejected">>}
  BY <1>3 DEF Outcomes
<1>7. Decision(d)
  BY <1>5, <1>6 DEF Decision
<1>8. RequestIn(d, tx, audit)
  BY <1>1, <1>2, <1>5, <1>7 DEF RequestIn, OnOne
<1>9. Sits(q, d) /\ UNCHANGED <<tables, work>>
  BY <1>3, <1>4 DEF BeginReview
<1> QED
  BY <1>8, <1>9, Begun

LEMMA PostBegins ==
    ASSUME ReviewInv, NEW q \in Request, NEW o \in Posters, NEW t \in Tx, BeginPost(q, o, t)
    PROVE  ReviewInv'
<1>1. o \in Officer
  BY OfficerAssumption
<1>2. PICK d : d = [by |-> o, does |-> "post", tx |-> t]
  OBVIOUS
<1>3. d.by = o /\ d.tx = t /\ d.does = "post" /\ Sits(q, d) /\ UNCHANGED <<tables, work>>
  BY <1>2 DEF BeginPost
<1>4. /\ tx[t].status = "approved" /\ tx[t].leg # "credit"
      /\ <<o, "captured", t>> \notin audit
      /\ <<o, "approved", t>> \notin audit \/ (tx[t].kind = "deposit" /\ <<App, "captured", t>> \in audit)
  BY DEF BeginPost, Segregated, Did, FromApp
<1>5. tx[t] # NoRow
  BY <1>4, RowIsThere DEF Status
<1>6. \E a \in Officer : <<a, "approved", t>> \in audit
  BY <1>4 DEF ReviewInv, Holds, PeopleIn, PeopleOn
<1>7. Approved(d, tx, audit)
  BY <1>3, <1>4, <1>6 DEF Approved
<1>8. RequestIn(d, tx, audit)
  BY <1>1, <1>3, <1>4, <1>5, <1>7 DEF RequestIn, OnOne
<1> QED
  BY <1>3, <1>8, Begun

LEMMA ReverseBegins ==
    ASSUME ReviewInv, NEW q \in Request, NEW o \in Reversers, NEW t \in Tx, BeginReverse(q, o, t)
    PROVE  ReviewInv'
<1>1. PICK d : d = [by |-> o, does |-> "reverse", targets |-> ReversedWith(t)]
  OBVIOUS
<1>2. d.does = "reverse" /\ d.targets = ReversedWith(t) /\ Sits(q, d) /\ UNCHANGED <<tables, work>>
  BY <1>1 DEF BeginReverse
<1>3. ReversedWith(t) \in SUBSET Tx /\ \A u \in ReversedWith(t) : tx[u].status = "posted"
  BY DEF BeginReverse, ReversedWith, OtherLegs
<1>4. \A u \in ReversedWith(t) : tx[u] # NoRow
  BY <1>3, RowIsThere DEF Status
<1>5. RequestIn(d, tx, audit)
  BY <1>2, <1>3, <1>4 DEF RequestIn
<1> QED
  BY <1>2, <1>5, Begun

\* An exit's first part: what is started is a draft among the exits there
\* may be; what is submitted or withdrawn is its captor's.
LEMMA ExitBegun ==
    ASSUME ReviewInv, NEW q \in Request, NEW o, ExitBegins(q, o)
    PROVE  UNCHANGED <<tables, work>> /\ \E t \in Tx :
             \/ \E r \in ExitForms[t] : \E amount :
                   Sits(q, [by |-> o, does |-> "start", tx |-> t,
                            row |-> [r EXCEPT !.status = "draft", !.amount = amount]])
             \/ OwnEditable(o, t) /\ Sends(q, o, t)
             \/ OwnEditable(o, t) /\ Sits(q, [by |-> o, does |-> "cancel", tx |-> t])
<1>1. PICK t \in Tx : \/ BeginStartClosure(q, o, t) \/ BeginSubmitClosure(q, o, t)
                     \/ BeginStartResignation(q, o, t) \/ BeginSubmitResignation(q, o, t)
                     \/ BeginStartDemise(q, o, t) \/ BeginSubmitDemise(q, o, t)
                     \/ BeginCancel(q, o, t)
  BY DEF ExitBegins
<1>2. ASSUME NEW r \in ExitForms[t], Starts(q, o, t, r)
      PROVE  UNCHANGED <<tables, work>> /\ \E amount :
                   Sits(q, [by |-> o, does |-> "start", tx |-> t,
                            row |-> [r EXCEPT !.status = "draft", !.amount = amount]])
  BY <1>2 DEF Starts
<1>3. ASSUME BeginStartClosure(q, o, t) \/ BeginStartResignation(q, o, t) \/ BeginStartDemise(q, o, t)
      PROVE  \E r \in ExitForms[t] : Starts(q, o, t, r)
  BY <1>3 DEF BeginStartClosure, BeginStartResignation, BeginStartDemise
<1>4. ASSUME BeginSubmitClosure(q, o, t) \/ BeginSubmitResignation(q, o, t) \/ BeginSubmitDemise(q, o, t)
      PROVE  UNCHANGED <<tables, work>> /\ OwnEditable(o, t) /\ Sends(q, o, t)
  BY <1>4 DEF BeginSubmitClosure, BeginSubmitResignation, BeginSubmitDemise, Sends
<1>5. ASSUME BeginCancel(q, o, t)
      PROVE  UNCHANGED <<tables, work>> /\ OwnEditable(o, t) /\ Sits(q, [by |-> o, does |-> "cancel", tx |-> t])
  BY <1>5 DEF BeginCancel
<1> QED
  BY <1>1, <1>2, <1>3, <1>4, <1>5

LEMMA ExitBeginsWell ==
    ASSUME ReviewInv, NEW q \in Request, NEW o \in Captors, ExitBegins(q, o)
    PROVE  \E d : /\ Sits(q, d) /\ RequestIn(d, tx, audit) /\ d.does # "reverse"
                  /\ d.does = "submit" => d.settles \subseteq Covers(tx[d.tx])
<1>1. o \in Officer
  BY OfficerAssumption
<1>3. PICK t \in Tx :
             \/ \E r \in ExitForms[t] : \E amount :
                   Sits(q, [by |-> o, does |-> "start", tx |-> t,
                            row |-> [r EXCEPT !.status = "draft", !.amount = amount]])
             \/ OwnEditable(o, t) /\ Sends(q, o, t)
             \/ OwnEditable(o, t) /\ Sits(q, [by |-> o, does |-> "cancel", tx |-> t])
  BY ExitBegun
<1>4. ASSUME NEW r \in ExitForms[t], NEW amount,
             Sits(q, [by |-> o, does |-> "start", tx |-> t,
                      row |-> [r EXCEPT !.status = "draft", !.amount = amount]])
      PROVE  \E d : Sits(q, d) /\ RequestIn(d, tx, audit) /\ d.does = "start"
  <2>1. /\ r \in Row /\ r.kind \in ExitKind /\ WellFormed(r)
        /\ r.leg = "none" /\ r.transfer = NoTransfer
    BY <1>4, ExitFormsAssumption DEF ExitForm
  <2>2. IsRow(r)
    <3>1. r.kind # "transfer_leg"
      BY <2>1 DEF ExitKind
    <3> QED
      BY <2>1, <3>1 DEF IsRow, Row, WellFormed
  <2>3. PICK s : s = [r EXCEPT !.amount = amount]
    OBVIOUS
  <2>4. IsRow(s) /\ s.kind = r.kind
    BY <2>2, <2>3 DEF IsRow
  <2>5. PICK u : u = [r EXCEPT !.status = "draft", !.amount = amount]
    OBVIOUS
  <2>6. u = [s EXCEPT !.status = "draft"]
    BY <2>2, <2>3, <2>5 DEF IsRow
  <2>7. IsRow(u) /\ u.kind = r.kind /\ u.status = "draft"
    BY <2>4, <2>6 DEF IsRow, Status
  <2>8. PICK d : d = [by |-> o, does |-> "start", tx |-> t, row |-> u]
    OBVIOUS
  <2>9. d.by = o /\ d.does = "start" /\ d.tx = t /\ d.row = u /\ Sits(q, d)
    BY <1>4, <2>5, <2>8
  <2>10. RequestIn(d, tx, audit)
    BY <1>1, <2>1, <2>7, <2>9 DEF RequestIn
  <2> QED
    BY <2>9, <2>10
<1>5. ASSUME OwnEditable(o, t)
      PROVE  tx[t] # NoRow /\ tx[t].leg # "credit" /\ tx[t].kind \in ExitKind /\ <<o, "captured", t>> \in audit
  <2>1. RowsIn(tx) /\ tx[t].status \in Status /\ tx[t].kind # "transfer_leg"
    BY <1>5 DEF ReviewInv, Holds, OwnEditable, Status, ExitKind
  <2> QED
    BY <1>5, <2>1, RowIsThere DEF RowsIn, IsRow, OwnEditable, Did
<1>6. ASSUME OwnEditable(o, t), Sends(q, o, t)
      PROVE  \E d : Sits(q, d) /\ RequestIn(d, tx, audit) /\ d.does = "submit" /\ d.settles \subseteq Covers(tx[d.tx])
  <2>1. PICK d : d = [by |-> o, does |-> "submit", tx |-> t, amount |-> Total(tx[t]),
                      settles |-> Open(tx[t]), again |-> tx[t].status = "returned",
                      chain |-> ExitRoute, step |-> FirstStep(ExitRoute),
                      leftChain |-> chain[t], leftStep |-> step[t]]
    OBVIOUS
  <2>2. d.by = o /\ d.does = "submit" /\ d.tx = t /\ d.settles = Open(tx[t])
    BY <2>1
  <2>3. Sits(q, d)
    BY <1>6, <2>1 DEF Sends
  <2>4. RequestIn(d, tx, audit)
    BY <1>1, <1>5, <1>6, <2>2 DEF RequestIn, OnOne
  <2> QED
    BY <2>2, <2>3, <2>4 DEF Open
<1>7. ASSUME OwnEditable(o, t), Sits(q, [by |-> o, does |-> "cancel", tx |-> t])
      PROVE  \E d : Sits(q, d) /\ RequestIn(d, tx, audit) /\ d.does = "cancel"
  <2>1. PICK d : d = [by |-> o, does |-> "cancel", tx |-> t]
    OBVIOUS
  <2>2. d.by = o /\ d.does = "cancel" /\ d.tx = t
    BY <2>1
  <2>3. RequestIn(d, tx, audit)
    BY <1>1, <1>5, <1>7, <2>2 DEF RequestIn, OnOne
  <2> QED
    BY <1>7, <2>1, <2>2, <2>3
<1> QED
  BY <1>3, <1>4, <1>6, <1>7

----------------------------------------------------------------------------
(* The invariant holds *)

LEMMA ReviewInvStarts == Init => ReviewInv
<1> SUFFICES ASSUME Init PROVE ReviewInv
  OBVIOUS
<1>1. /\ tx = [t \in Tx |-> NoRow] /\ entry = [a \in Account |-> <<>>]
      /\ chain = [t \in Tx |-> NoChain] /\ transfer = [x \in Transfer |-> "none"]
      /\ audit = {} /\ desk = [q \in Request |-> Idle]
  BY DEF Init, EmptyTables
<1>2. \A t \in Tx : tx[t] = NoRow /\ ~LegIn(t, tx) /\ tx[t].status = "none"
  BY <1>1 DEF LegIn, NoRow
<1>3. RowsIn(tx) /\ WorkIn(chain, transfer)
  BY <1>1, <1>2 DEF RowsIn, WorkIn
<1>4. PeopleIn(tx, chain, audit)
  BY <1>1, <1>2 DEF PeopleIn, PeopleOn
<1>5. TransfersIn(tx) /\ PairsIn(tx, audit) /\ MirrorsIn(tx, transfer)
  BY <1>2 DEF TransfersIn, PairsIn, MirrorsIn, Debit
<1>6. EntriesIn(entry, tx)
  <2>1. \A a \in Account : entry[a] = <<>> /\ <<>> \in Seq({}) /\ DOMAIN entry[a] = {}
    BY <1>1
  <2> QED
    BY <1>1, <2>1 DEF EntriesIn
<1>7. \A q \in Request : RequestIn(desk[q], tx, audit)
  BY <1>1 DEF RequestIn, Idle
<1> QED
  BY <1>1, <1>3, <1>4, <1>5, <1>6, <1>7 DEF ReviewInv, Holds

LEMMA ReviewInvStays == ReviewInv /\ [Next]_vars => ReviewInv'
<1> SUFFICES ASSUME ReviewInv, [Next]_vars PROVE ReviewInv'
  OBVIOUS
<1>1. ASSUME NEW q \in Request, Begins(q)
      PROVE  ReviewInv'
  BY <1>1, RecordBegins, DraftBegins, ResubmitBegins, DecisionBegins, PostBegins, ReverseBegins DEF Begins
<1>2. ASSUME NEW q \in Request, Commits(q)
      PROVE  ReviewInv'
  <2>1. CASE CommitDeposit(q) \/ CommitWithdrawal(q) \/ CommitTransfer(q)
    <3>1. Sits(q, Idle) /\ Kept
      BY <2>1, RecordedKeeps DEF CommitDeposit, CommitWithdrawal, CommitTransfer, Recorded
    <3> QED
      BY <3>1, RequestEnds
  <2>2. CASE CommitRequest(q)
    <3>1. Sits(q, Idle) /\ Kept
      BY <2>2, DraftKeeps DEF CommitRequest
    <3> QED
      BY <3>1, RequestEnds
  <2>3. CASE CommitUpdateRequest(q) \/ CommitCancelRequest(q)
    <3>1. Sits(q, Idle) /\ Kept
      BY <2>3, UpdateKeeps DEF CommitUpdateRequest, CommitCancelRequest
    <3> QED
      BY <3>1, RequestEnds
  <2>4. CASE CommitSubmitRequest(q)
    <3>1. Sits(q, Idle) /\ Kept
      BY <2>4, SendKeeps DEF CommitSubmitRequest
    <3> QED
      BY <3>1, RequestEnds
  <2>5. CASE CommitResubmitDeposit(q) \/ CommitResubmitWithdrawal(q) \/ CommitResubmitTransfer(q)
    <3>1. Sits(q, Idle) /\ Kept
      BY <2>5, ResubmittedKeeps DEF CommitResubmitDeposit, CommitResubmitWithdrawal, CommitResubmitTransfer, Resubmitted
    <3> QED
      BY <3>1, RequestEnds
  <2>6. CASE CommitReview(q)
    <3>1. Sits(q, Idle) /\ Kept
      BY <2>6, ReviewKeeps DEF CommitReview
    <3> QED
      BY <3>1, RequestEnds
  <2>7. CASE CommitPost(q)
    <3>1. Sits(q, Idle) /\ Kept
      BY <2>7, PostKeeps DEF CommitPost
    <3> QED
      BY <3>1, RequestEnds
  <2>8. CASE CommitReverse(q)
    <3>1. Sits(q, Idle) /\ Kept
      BY <2>8, ReverseKeeps DEF CommitReverse
    <3> QED
      BY <3>1, RequestEnds
  <2> QED
    BY <1>2, <2>1, <2>2, <2>3, <2>4, <2>5, <2>6, <2>7, <2>8 DEF Commits
<1>3. ASSUME NEW q \in Request, Abandon(q)
      PROVE  ReviewInv'
  <2>1. RequestIn(Idle, tx, audit)
    BY DEF RequestIn, Idle
  <2> QED
    BY <1>3, <2>1, Begun DEF Abandon
<1>4. ASSUME NEW c \in Chain, NEW s \in Step, Toggle(c, s)
      PROVE  ReviewInv'
  <2>1. UNCHANGED <<tx, entry, chain, transfer, audit, desk>>
    BY <1>4 DEF Toggle, tables
  <2> QED
    BY <2>1 DEF ReviewInv
<1>5. CASE UNCHANGED vars
  <2>1. UNCHANGED <<tx, entry, chain, transfer, audit, desk>>
    BY <1>5 DEF vars, tables, work
  <2> QED
    BY <2>1 DEF ReviewInv
<1> QED
  BY <1>1, <1>2, <1>3, <1>4, <1>5 DEF Next

\* Also where exits are captured.
LEMMA ReviewInvStaysOn == ReviewInv /\ [ExitNext]_vars => ReviewInv'
<1> SUFFICES ASSUME ReviewInv, [ExitNext]_vars PROVE ReviewInv'
  OBVIOUS
<1>1. CASE [Next]_vars
  BY <1>1, ReviewInvStays
<1>2. ASSUME NEW q \in Request, ExitCommits(q)
      PROVE  ReviewInv'
  BY <1>2, ExitKeeps, RequestEnds
<1>3. ASSUME NEW q \in Request, NEW o \in Captors, ExitBegins(q, o)
      PROVE  ReviewInv'
  <2>1. UNCHANGED <<tables, work>>
    BY <1>3, ExitBegun
  <2>2. PICK d : /\ Sits(q, d) /\ RequestIn(d, tx, audit) /\ d.does # "reverse"
                 /\ d.does = "submit" => d.settles \subseteq Covers(tx[d.tx])
    BY <1>3, ExitBeginsWell
  <2> QED
    BY <2>1, <2>2, Begun
<1> QED
  BY <1>1, <1>2, <1>3 DEF ExitNext

\* Review alone is what Exits specifies, of no exit.
LEMMA WithoutExits == Spec => ExitSpec
<1>1. [Next]_vars => [ExitNext]_vars
  BY DEF ExitNext
<1> QED
  BY <1>1, PTL DEF Spec, ExitSpec

THEOREM Reviewed == Spec \/ ExitSpec => []ReviewInv
<1> QED
  BY ReviewInvStarts, ReviewInvStaysOn, WithoutExits, PTL DEF ExitSpec

----------------------------------------------------------------------------
(* What follows *)

\* Whoever acted at whatever time on whatever they had read: a transaction
\* that went through a chain was captured, approved and posted by three
\* people (the segregation rules of 0069 and 0072).
THEOREM ThreePeopleTakePart == Spec \/ ExitSpec => []ThreePeople
<1>1. ReviewInv => ThreePeople
  BY DEF ReviewInv, Holds, PeopleIn, PeopleOn, ThreeOn, ThreePeople, Did
<1> QED
  BY <1>1, Reviewed, PTL

\* The transfer row reads what its debit leg reads after any interleaving of
\* captures, decisions, corrections and postings (review.ts, 0073).
THEOREM TransferRowFollows == Spec \/ ExitSpec => []TransferReadsDebitLeg
<1>1. ReviewInv => TransferReadsDebitLeg
  <2> SUFFICES ASSUME ReviewInv, NEW t \in Tx, tx[t] # NoRow, tx[t].kind = "transfer_leg"
               PROVE  IF tx[t].leg = "debit" THEN transfer[tx[t].transfer] = tx[t].status
                      ELSE tx[t].status \in {"approved", "posted"} => transfer[tx[t].transfer] = tx[t].status
    BY DEF TransferReadsDebitLeg
  <2>1. RowsIn(tx) /\ TransfersIn(tx) /\ PairsIn(tx, audit) /\ MirrorsIn(tx, transfer) /\ LegIn(t, tx)
    BY DEF ReviewInv, Holds, LegIn
  <2>2. CASE tx[t].leg = "debit"
    BY <2>1, <2>2 DEF MirrorsIn, Debit
  <2>3. CASE tx[t].leg # "debit"
    <3>1. tx[t].leg = "credit"
      BY <2>1, <2>3 DEF RowsIn, IsRow, Direction
    <3>2. PICK d \in Tx : Debit(d, tx) /\ tx[d].transfer = tx[t].transfer
      BY <2>1, <3>1 DEF TransfersIn
    <3>3. PairIn(d, tx, audit) /\ t \in Credits(d, tx)
      BY <2>1, <3>1, <3>2 DEF PairsIn, Credits
    <3>4. transfer[tx[t].transfer] = tx[d].status
      BY <2>1, <3>2 DEF MirrorsIn
    <3> QED
      BY <2>3, <3>3, <3>4 DEF PairIn
  <2> QED
    BY <2>2, <2>3
<1> QED
  BY <1>1, Reviewed, PTL

LEMMA LegsOfOneTransfer ==
    ASSUME ReviewInv, NEW t \in Tx, NEW u \in OtherLegs(t)
    PROVE  /\ u \in Tx
           /\ \/ Debit(t, tx) /\ u \in Credits(t, tx) /\ PairIn(t, tx, audit)
              \/ Debit(u, tx) /\ t \in Credits(u, tx) /\ PairIn(u, tx, audit)
<1>1. RowsIn(tx) /\ TransfersIn(tx) /\ PairsIn(tx, audit)
  BY DEF ReviewInv, Holds
<1>2. u \in Tx /\ u # t /\ LegIn(t, tx) /\ tx[u] # NoRow /\ tx[u].transfer = tx[t].transfer
  BY DEF OtherLegs, LegIn
<1>3. LegIn(u, tx) /\ tx[t].leg \in Direction /\ tx[u].leg \in Direction
  BY <1>1, <1>2, NoTransferAssumption DEF RowsIn, IsRow, LegIn
<1>4. tx[t].leg # tx[u].leg
  BY <1>1, <1>2, <1>3 DEF TransfersIn
<1> QED
  BY <1>1, <1>2, <1>3, <1>4 DEF PairsIn, Debit, Credits, Direction

\* What leaves one account of a transfer arrives on the other, corrected
\* amounts included (transfers.ts, resubmitTransfer).
THEOREM WhatLeavesArrives == Spec \/ ExitSpec => []LegsAgree
<1>1. ReviewInv => LegsAgree
  <2> SUFFICES ASSUME ReviewInv, NEW t \in Tx, NEW u \in OtherLegs(t), tx[t].status = "posted", tx[u].status = "posted"
               PROVE  tx[t].amount = tx[u].amount /\ DirectionsOf(t) \cap DirectionsOf(u) = {}
    BY DEF LegsAgree
  <2>1. u \in Tx /\ LegIn(t, tx) /\ LegIn(u, tx) /\ tx[t].amount = tx[u].amount /\ tx[t].leg # tx[u].leg
    BY LegsOfOneTransfer DEF PairIn, Debit, Credits
  <2>2. ASSUME NEW v \in Tx, LegIn(v, tx), NEW way \in DirectionsOf(v)
        PROVE  way = tx[v].leg
    <3>1. PICK p \in PlacesOf(v) : way = entry[p[1]][p[2]].direction
      BY DEF DirectionsOf
    <3>2. PICK a \in Account : \E i \in DOMAIN entry[a] : p = <<a, i>> /\ entry[a][i].tx = v
      BY <3>1 DEF PlacesOf
    <3>3. \A i \in DOMAIN entry[a] : entry[a][i].tx = v => entry[a][i].direction = tx[v].leg
      BY <2>2 DEF ReviewInv, Holds, EntriesIn
    <3> QED
      BY <3>1, <3>2, <3>3
  <2> QED
    BY <2>1, <2>2
<1> QED
  BY <1>1, Reviewed, PTL

\* A transfer posts both legs or neither, unless a decision was written over
\* its rejection (0099, post_transaction; review.ts).
THEOREM BothLegsPost == Spec \/ ExitSpec => []BothLegsOrNeither
<1>1. ReviewInv => BothLegsOrNeither
  <2> SUFFICES ASSUME ReviewInv, NEW t \in Tx, tx[t].status = "posted", NEW u \in OtherLegs(t)
               PROVE  tx[u].status = "posted" \/ \E o \in Officer : Did(o, "rejected", t)
    BY DEF BothLegsOrNeither
  <2> QED
    BY LegsOfOneTransfer DEF PairIn, Did
<1> QED
  BY <1>1, Reviewed, PTL

----------------------------------------------------------------------------
(* Reversals come in pairs *)

\* What one call reverses: whole transfers, of what has posted.
Whole(targets) ==
    /\ targets \in SUBSET Tx /\ IsFiniteSet(targets)
    /\ \A t \in targets : /\ tx[t].status = "posted"
                          /\ \A u \in OtherLegs(t) : tx[u].status = "posted" => u \in targets

TogetherInv ==
    /\ \A r \in Tx : tx[r] # NoRow /\ tx[r].kind = "reversal" =>
           tx[r].status = "posted" /\ (tx[r].reverses \in Tx => tx[tx[r].reverses].status = "posted")
    /\ \A t \in Tx : IsFiniteSet(ReversalsOf(t))
    /\ ReversedTogether
    /\ \A q \in Request : desk[q].does = "reverse" => Whole(desk[q].targets)

\* A leg's other leg, by what both rows say.
Partners(t, u, rows) ==
    u # t /\ LegIn(t, rows) /\ LegIn(u, rows) /\ rows[u].transfer = rows[t].transfer

LEMMA LegOfTransfer ==
    ASSUME NEW rows, RowsIn(rows), NEW t \in Tx, NEW u \in Tx, rows[t] # NoRow, rows[t].kind = "transfer_leg",
           rows[u] # NoRow, rows[u].transfer = rows[t].transfer
    PROVE  LegIn(t, rows) /\ LegIn(u, rows)
BY NoTransferAssumption DEF RowsIn, IsRow, LegIn

LEMMA OtherLegIsPartner ==
    ASSUME RowsIn(tx), NEW t \in Tx, NEW u
    PROVE  u \in OtherLegs(t) <=> u \in Tx /\ Partners(t, u, tx)
<1>1. u \in OtherLegs(t) => u \in Tx /\ Partners(t, u, tx)
  <2> SUFFICES ASSUME u \in OtherLegs(t) PROVE u \in Tx /\ Partners(t, u, tx)
    OBVIOUS
  <2>1. u \in Tx /\ u # t /\ tx[t] # NoRow /\ tx[t].kind = "transfer_leg" /\ tx[u] # NoRow /\ tx[u].transfer = tx[t].transfer
    BY DEF OtherLegs
  <2> QED
    BY <2>1, LegOfTransfer DEF Partners
<1>2. u \in Tx /\ Partners(t, u, tx) => u \in OtherLegs(t)
  BY DEF Partners, OtherLegs, LegIn
<1> QED
  BY <1>1, <1>2

\* A reversal that posted is of kind reversal, and reverses what posted.
LEMMA ReversalIs ==
    ASSUME ReviewInv, NEW t \in Tx, NEW r \in ReversalsOf(t)
    PROVE  r \in Tx /\ tx[r] # NoRow /\ tx[r].kind = "reversal" /\ tx[r].status = "posted" /\ tx[r].reverses = t
<1>1. r \in Tx /\ tx[r].status = "posted" /\ tx[r].reverses = t
  BY DEF ReversalsOf
<1>2. tx[r] # NoRow
  BY <1>1 DEF NoRow
<1>3. IsRow(tx[r])
  BY <1>1, <1>2 DEF ReviewInv, Holds, RowsIn
<1> QED
  BY <1>1, <1>2, <1>3, NoTxAssumption DEF IsRow

\* The legs of a transfer that both have posted did so in one step.
LEMMA LegsPostTogether ==
    ASSUME ReviewInv, ReviewInv', Onward(tx, tx'), Firm(tx, tx'), LegsCome(tx, tx'),
           NEW t \in Tx, NEW u \in Tx, Partners(t, u, tx'), tx'[t].status = "posted", tx'[u].status = "posted",
           tx[t].status = "posted"
    PROVE  tx[u].status = "posted" /\ Partners(t, u, tx)
<1>1. tx[t] # NoRow /\ tx'[t] = tx[t] /\ LegIn(t, tx)
  BY DEF Firm, Partners, NoRow, LegIn
<1>2. tx[u] # NoRow
  BY <1>1 DEF LegsCome, Partners
<1>3. LegIn(u, tx) /\ SameRow(tx'[u], tx[u])
  BY <1>2 DEF Onward, SameRow, LegIn, Partners
<1>4. Partners(t, u, tx)
  BY <1>1, <1>3 DEF Partners, SameRow
<1>5. u \in OtherLegs(t)
  BY <1>4, OtherLegIsPartner DEF ReviewInv, Holds
<1>6. CASE Debit(u, tx) /\ t \in Credits(u, tx) /\ PairIn(u, tx, audit)
  BY <1>4, <1>6 DEF PairIn
<1>7. CASE Debit(t, tx) /\ u \in Credits(t, tx) /\ PairIn(t, tx, audit)
  <2>1. tx[u].status \in {"posted", "rejected"} /\ tx[u].leg = "credit"
    BY <1>7 DEF PairIn, Credits
  <2>2. tx[u].status # "rejected"
    BY <1>3, <2>1 DEF Firm
  <2> QED
    BY <1>4, <2>1, <2>2
<1> QED
  BY <1>5, <1>6, <1>7, LegsOfOneTransfer

\* Nothing posts before what it reverses.
LEMMA NoneYet ==
    ASSUME ReviewInv, TogetherInv, NEW t \in Tx, tx[t].status # "posted"
    PROVE  ReversalsOf(t) = {}
<1> SUFFICES ASSUME NEW r \in ReversalsOf(t) PROVE FALSE
  OBVIOUS
<1>1. r \in Tx /\ tx[r] # NoRow /\ tx[r].kind = "reversal" /\ tx[r].reverses = t
  BY ReversalIs
<1> QED
  BY <1>1 DEF TogetherInv

\* A request to reverse goes on holding whole transfers.
LEMMA StaysWhole ==
    ASSUME ReviewInv, ReviewInv', Onward(tx, tx'), Firm(tx, tx'), LegsCome(tx, tx'),
           NEW targets, Whole(targets)
    PROVE  Whole(targets)'
<1> SUFFICES ASSUME NEW t \in targets
             PROVE  /\ tx'[t].status = "posted"
                    /\ \A u \in OtherLegs(t)' : tx'[u].status = "posted" => u \in targets
  BY DEF Whole
<1>1. t \in Tx /\ tx[t].status = "posted" /\ tx'[t] = tx[t]
  BY DEF Whole, Firm
<1>2. ASSUME NEW u \in OtherLegs(t)', tx'[u].status = "posted"
      PROVE  u \in targets
  <2>1. u \in Tx /\ u # t /\ tx'[t] # NoRow /\ tx'[t].kind = "transfer_leg" /\ tx'[u] # NoRow /\ tx'[u].transfer = tx'[t].transfer
    BY <1>2 DEF OtherLegs
  <2>5. Partners(t, u, tx')
    BY <1>1, <2>1, LegOfTransfer DEF Partners, ReviewInv, Holds
  <2>2. tx[u].status = "posted" /\ Partners(t, u, tx)
    BY <1>1, <1>2, <2>1, <2>5, LegsPostTogether
  <2>3. u \in OtherLegs(t)
    BY <1>1, <2>1, <2>2, OtherLegIsPartner DEF ReviewInv, Holds
  <2> QED
    BY <2>2, <2>3 DEF Whole
<1> QED
  BY <1>1, <1>2

\* A step that brings no reversal.
LEMMA NoneComes ==
    ASSUME ReviewInv, ReviewInv', TogetherInv, Onward(tx, tx'), Steady(tx, tx'), NEW t \in Tx
    PROVE  ReversalsOf(t)' = ReversalsOf(t)
<1>1. ASSUME NEW r \in ReversalsOf(t)
      PROVE  r \in ReversalsOf(t)'
  BY <1>1 DEF ReversalsOf, Steady, Firm
<1>2. ASSUME NEW r \in ReversalsOf(t)'
      PROVE  r \in ReversalsOf(t)
  <2>1. r \in Tx /\ tx'[r].status = "posted" /\ tx'[r].reverses = t
    BY <1>2 DEF ReversalsOf
  <2>2. tx'[r] # NoRow
    BY <2>1 DEF NoRow
  <2>3. IsRow(tx'[r])
    BY <2>1, <2>2 DEF ReviewInv, Holds, RowsIn
  <2>4. tx'[r].kind = "reversal"
    BY <2>1, <2>3, NoTxAssumption DEF IsRow
  <2>5. tx[r] # NoRow /\ tx[r].kind = "reversal"
    BY <2>1, <2>2, <2>4 DEF Steady, NoneReversed, Onward, SameRow
  <2>6. tx'[r] = tx[r]
    BY <2>1, <2>5 DEF TogetherInv, Steady, Firm
  <2> QED
    BY <2>1, <2>6 DEF ReversalsOf
<1> QED
  BY <1>1, <1>2

\* Every step but a reversal's.
LEMMA SteadyKeepsTogether ==
    ASSUME ReviewInv, ReviewInv', TogetherInv, Onward(tx, tx'), Steady(tx, tx')
    PROVE  /\ \A r \in Tx : tx'[r] # NoRow /\ tx'[r].kind = "reversal" =>
                  tx'[r].status = "posted" /\ (tx'[r].reverses \in Tx => tx'[tx'[r].reverses].status = "posted")
           /\ \A t \in Tx : IsFiniteSet(ReversalsOf(t)')
           /\ ReversedTogether'
<1>1. ASSUME NEW r \in Tx, tx'[r] # NoRow, tx'[r].kind = "reversal"
      PROVE  tx'[r].status = "posted" /\ (tx'[r].reverses \in Tx => tx'[tx'[r].reverses].status = "posted")
  <2>1. tx[r] # NoRow /\ tx[r].kind = "reversal"
    BY <1>1 DEF Steady, NoneReversed, Onward, SameRow
  <2>2. tx[r].status = "posted" /\ (tx[r].reverses \in Tx => tx[tx[r].reverses].status = "posted")
    BY <2>1 DEF TogetherInv
  <2> QED
    BY <2>2 DEF Steady, Firm
<1>2. \A t \in Tx : IsFiniteSet(ReversalsOf(t)')
  BY NoneComes DEF TogetherInv
<1>3. ASSUME NEW t \in Tx, tx'[t].status = "posted", NEW u \in OtherLegs(t)', tx'[u].status = "posted"
      PROVE  Cardinality(ReversalsOf(t)') = Cardinality(ReversalsOf(u)')
  <2>1. u \in Tx /\ u # t /\ tx'[t] # NoRow /\ tx'[t].kind = "transfer_leg" /\ tx'[u] # NoRow /\ tx'[u].transfer = tx'[t].transfer
    BY <1>3 DEF OtherLegs
  <2>2. Partners(t, u, tx') /\ Partners(u, t, tx')
    BY <2>1, LegOfTransfer DEF Partners, ReviewInv, Holds
  <2>3. ReversalsOf(t)' = ReversalsOf(t) /\ ReversalsOf(u)' = ReversalsOf(u)
    BY <2>1, NoneComes
  <2>4. CASE tx[t].status = "posted"
    <3>1. tx[u].status = "posted" /\ Partners(t, u, tx)
      BY <1>3, <2>1, <2>2, <2>4, LegsPostTogether DEF Steady
    <3>2. u \in OtherLegs(t)
      BY <2>1, <3>1, OtherLegIsPartner DEF ReviewInv, Holds
    <3> QED
      BY <2>3, <2>4, <3>1, <3>2 DEF TogetherInv, ReversedTogether
  <2>5. CASE tx[t].status # "posted"
    <3>1. tx[u].status # "posted"
      BY <1>3, <2>1, <2>2, <2>5, LegsPostTogether DEF Steady
    <3> QED
      BY <2>1, <2>3, <2>5, <3>1, NoneYet
  <2> QED
    BY <2>4, <2>5
<1> QED
  BY <1>1, <1>2, <1>3 DEF ReversedTogether

\* A call to reverse writes one reversal for each of its targets.
LEMMA OneReversalEach ==
    ASSUME ReviewInv, NEW q \in Request, CommitReverse(q), NEW targets, targets = desk[q].targets, Whole(targets)
    PROVE  \E id \in [targets -> Tx] :
               /\ \A t, u \in targets : id[t] = id[u] => t = u
               /\ \A t \in targets : /\ tx[id[t]] = NoRow /\ tx'[id[t]] # NoRow
                                     /\ tx'[id[t]].kind = "reversal" /\ tx'[id[t]].status = "posted"
                                     /\ tx'[id[t]].reverses = t
               /\ \A u \in Tx : (\A t \in targets : u # id[t]) => tx'[u] = tx[u]
<1>1. PICK id \in [desk[q].targets -> {u \in Spare : tx[u] = NoRow}] :
           LET names == {id[t] : t \in desk[q].targets}
           IN  /\ Cardinality(names) = Cardinality(desk[q].targets)
               /\ PostAll(names,
                          [u \in Tx |-> IF u \in names
                                        THEN ReversalOf(CHOOSE t \in desk[q].targets : id[t] = u)
                                        ELSE tx[u]],
                          account)
               /\ audit' = audit \cup Records(desk[q].by, "reversed", desk[q].targets)
                                \cup Records(desk[q].by, "posted", names)
  BY Zenon DEF CommitReverse
<1> DEFINE ids == {id[t] : t \in desk[q].targets}
           rows == [u \in Tx |-> IF u \in ids
                                 THEN ReversalOf(CHOOSE t \in desk[q].targets : id[t] = u)
                                 ELSE tx[u]]
<1>4. Cardinality(ids) = Cardinality(desk[q].targets) /\ PostAll(ids, rows, account)
  BY <1>1, Zenon
<1>2. ids = {id[t] : t \in targets}
  OBVIOUS
<1>3. rows = [u \in Tx |-> IF u \in ids THEN ReversalOf(CHOOSE t \in targets : id[t] = u) ELSE tx[u]]
  OBVIOUS
<1> HIDE DEF ids, rows
<1>5. id \in [targets -> Tx] /\ \A t \in targets : tx[id[t]] = NoRow
  BY <1>1, SpareAssumption
\* As many ids as targets: no two targets have one.
<1>6. \A t, u \in targets : id[t] = id[u] => t = u
  <2>1. id \in Surjection(targets, ids)
    BY <1>1, <1>2 DEF Surjection
  <2>2. id \in Injection(targets, ids)
    BY <1>4, <2>1, FS_Surjection DEF Whole
  <2> QED
    BY <2>2 DEF Injection, IsInjective
<1>7. tx' = [u \in Tx |-> IF u \in ids THEN [rows[u] EXCEPT !.status = "posted"] ELSE rows[u]]
  BY <1>4 DEF PostAll, RowsAfter
<1>8. \A u \in Tx : u \notin ids => tx'[u] = tx[u]
  BY <1>3, <1>7
<1>9. ASSUME NEW t \in targets
      PROVE  /\ tx'[id[t]] # NoRow /\ tx'[id[t]].kind = "reversal" /\ tx'[id[t]].status = "posted"
             /\ tx'[id[t]].reverses = t
  <2>1. id[t] \in ids /\ id[t] \in Tx
    BY <1>2, <1>5
  <2>2. t = CHOOSE x \in targets : id[x] = id[t]
    BY <1>6
  <2>3. rows[id[t]] = ReversalOf(t)
    BY <1>3, <2>1, <2>2
  <2>4. PICK row : row = tx[t] /\ IsRow(row)
    <3>1. t \in Tx /\ tx[t].status = "posted"
      BY DEF Whole
    <3> QED
      BY <3>1 DEF ReviewInv, Holds, RowsIn, NoRow
  <2>5. rows[id[t]] = [kind |-> "reversal", status |-> "submitted", account |-> row.account, amount |-> row.amount,
                       leg |-> "none", transfer |-> NoTransfer, reverses |-> t,
                       carried |-> FALSE, claimant |-> row.claimant, benefit |-> row.benefit]
    BY <2>3, <2>4 DEF ReversalOf, IsRow
  <2>6. PICK r : r = rows[id[t]]
    OBVIOUS
  <2>7. tx'[id[t]] = [r EXCEPT !.status = "posted"]
    BY <1>7, <2>1, <2>6
  <2> QED
    BY <2>5, <2>6, <2>7 DEF NoRow
<1>10. \A u \in Tx : (\A t \in targets : u # id[t]) => tx'[u] = tx[u]
  BY <1>2, <1>8
<1> QED
  BY <1>5, <1>6, <1>9, <1>10

\* So each target has one more, and nothing else does.
LEMMA ReversalKeepsTogether ==
    ASSUME ReviewInv, ReviewInv', TogetherInv, NEW q \in Request, CommitReverse(q),
           Onward(tx, tx'), Firm(tx, tx'), LegsCome(tx, tx')
    PROVE  /\ \A r \in Tx : tx'[r] # NoRow /\ tx'[r].kind = "reversal" =>
                  tx'[r].status = "posted" /\ (tx'[r].reverses \in Tx => tx'[tx'[r].reverses].status = "posted")
           /\ \A t \in Tx : IsFiniteSet(ReversalsOf(t)')
           /\ ReversedTogether'
<1>1. PICK targets : targets = desk[q].targets /\ Whole(targets)
  BY DEF TogetherInv, CommitReverse
<1>2. PICK id \in [targets -> Tx] :
          /\ \A t, u \in targets : id[t] = id[u] => t = u
          /\ \A t \in targets : /\ tx[id[t]] = NoRow /\ tx'[id[t]] # NoRow
                                /\ tx'[id[t]].kind = "reversal" /\ tx'[id[t]].status = "posted"
                                /\ tx'[id[t]].reverses = t
          /\ \A u \in Tx : (\A t \in targets : u # id[t]) => tx'[u] = tx[u]
  BY <1>1, OneReversalEach
<1>3. \A t \in targets : t \in Tx /\ tx[t].status = "posted" /\ tx'[t] = tx[t]
  BY <1>1 DEF Whole, Firm
<1>4. ASSUME NEW r \in Tx, tx'[r] # NoRow, tx'[r].kind = "reversal"
      PROVE  tx'[r].status = "posted" /\ (tx'[r].reverses \in Tx => tx'[tx'[r].reverses].status = "posted")
  <2>1. CASE \E t \in targets : r = id[t]
    BY <1>2, <1>3, <2>1
  <2>2. CASE \A t \in targets : r # id[t]
    <3>1. tx'[r] = tx[r]
      BY <1>2, <2>2
    <3>2. tx[r].status = "posted" /\ (tx[r].reverses \in Tx => tx[tx[r].reverses].status = "posted")
      BY <1>4, <3>1 DEF TogetherInv
    <3> QED
      BY <3>1, <3>2 DEF Firm
  <2> QED
    BY <2>1, <2>2
<1>5. ASSUME NEW t \in Tx, t \notin targets
      PROVE  ReversalsOf(t)' = ReversalsOf(t)
  <2>1. \A r \in Tx : tx'[r] # tx[r] => /\ tx[r] = NoRow
                                       /\ tx'[r].reverses # t
    BY <1>2, <1>5
  <2>2. \A r \in Tx : tx[r].status = "posted" => tx'[r] = tx[r]
    BY DEF Firm
  <2> QED
    BY <2>1, <2>2 DEF ReversalsOf
<1>6. ASSUME NEW t \in targets
      PROVE  /\ ReversalsOf(t)' = ReversalsOf(t) \cup {id[t]} /\ id[t] \notin ReversalsOf(t)
             /\ IsFiniteSet(ReversalsOf(t)')
             /\ Cardinality(ReversalsOf(t)') = Cardinality(ReversalsOf(t)) + 1
  <2>1. id[t] \in Tx /\ id[t] \notin ReversalsOf(t)
    BY <1>2 DEF ReversalsOf, NoRow
  <2>2. \A r \in Tx : r # id[t] /\ tx'[r] # tx[r] => tx'[r].reverses # t /\ tx[r] = NoRow
    BY <1>2
  <2>3. ReversalsOf(t)' = ReversalsOf(t) \cup {id[t]}
    BY <1>2, <2>1, <2>2 DEF ReversalsOf, Firm
  <2>4. IsFiniteSet(ReversalsOf(t))
    BY <1>3 DEF TogetherInv
  <2> QED
    BY <2>1, <2>3, <2>4, FS_AddElement
<1>7. \A t \in Tx : IsFiniteSet(ReversalsOf(t)')
  BY <1>5, <1>6 DEF TogetherInv
<1>8. ASSUME NEW t \in Tx, tx'[t].status = "posted", NEW u \in OtherLegs(t)', tx'[u].status = "posted"
      PROVE  Cardinality(ReversalsOf(t)') = Cardinality(ReversalsOf(u)')
  <2>1. u \in Tx /\ u # t /\ tx'[t] # NoRow /\ tx'[t].kind = "transfer_leg" /\ tx'[u] # NoRow /\ tx'[u].transfer = tx'[t].transfer
    BY <1>8 DEF OtherLegs
  <2>2. Partners(t, u, tx') /\ Partners(u, t, tx')
    BY <2>1, LegOfTransfer DEF Partners, ReviewInv, Holds
  <2>3. tx'[t].kind # "reversal" /\ tx'[u].kind # "reversal"
    BY <2>2 DEF Partners, LegIn
  <2>4. tx'[t] = tx[t] /\ tx'[u] = tx[u]
    BY <1>2, <2>1, <2>3
  <2>5. Partners(t, u, tx) /\ Partners(u, t, tx)
    BY <2>2, <2>4 DEF Partners, LegIn
  <2>6. u \in OtherLegs(t) /\ t \in OtherLegs(u)
    BY <2>1, <2>5, OtherLegIsPartner DEF ReviewInv, Holds
  <2>7. t \in targets <=> u \in targets
    BY <1>1, <1>8, <2>4, <2>6 DEF Whole
  <2>8. Cardinality(ReversalsOf(t)) = Cardinality(ReversalsOf(u))
    BY <1>8, <2>4, <2>6 DEF TogetherInv, ReversedTogether
  <2> QED
    BY <1>5, <1>6, <2>1, <2>7, <2>8
<1> QED
  BY <1>4, <1>7, <1>8 DEF ReversedTogether

\* What a call to reverse finds is whole: a leg has one other leg at most.
LEMMA ReversesWhole ==
    ASSUME ReviewInv, NEW t \in Tx, tx[t].status = "posted"
    PROVE  Whole(ReversedWith(t))
<1>1. \A u, v \in OtherLegs(t) : u = v /\ t \in OtherLegs(u) /\ OtherLegs(u) = {t}
  <2>1. ASSUME NEW u \in OtherLegs(t), NEW v \in Tx, Partners(u, v, tx)
        PROVE  v = t
    <3>1. u \in Tx /\ Partners(t, u, tx)
      BY OtherLegIsPartner DEF ReviewInv, Holds
    <3>2. tx[t].leg \in Direction /\ tx[u].leg \in Direction /\ tx[v].leg \in Direction
      BY <2>1, <3>1 DEF Partners, LegIn, ReviewInv, Holds, RowsIn, IsRow
    <3>3. tx[t].leg # tx[u].leg /\ tx[v].leg # tx[u].leg
      BY <2>1, <3>1 DEF Partners, ReviewInv, Holds, TransfersIn
    <3> QED
      BY <2>1, <3>1, <3>2, <3>3 DEF Partners, ReviewInv, Holds, TransfersIn, Direction
  <2>2. ASSUME NEW u \in OtherLegs(t)
        PROVE  u \in Tx /\ Partners(t, u, tx) /\ Partners(u, t, tx) /\ OtherLegs(u) = {t}
    <3>1. u \in Tx /\ Partners(t, u, tx)
      BY OtherLegIsPartner DEF ReviewInv, Holds
    <3>2. Partners(u, t, tx)
      BY <3>1 DEF Partners
    <3>3. OtherLegs(u) = {t}
      BY <2>1, <3>1, <3>2, OtherLegIsPartner DEF ReviewInv, Holds
    <3> QED
      BY <3>1, <3>2, <3>3
  <2>3. ASSUME NEW u \in OtherLegs(t), NEW v \in OtherLegs(t), u # v
        PROVE  FALSE
    <3>1. Partners(u, v, tx) /\ v \in Tx /\ v # t
      BY <2>2, <2>3 DEF Partners
    <3> QED
      BY <2>1, <3>1
  <2> QED
    BY <2>2, <2>3
<1>2. ReversedWith(t) \in SUBSET Tx
  BY DEF ReversedWith, OtherLegs
<1>3. IsFiniteSet(ReversedWith(t))
  <2>1. CASE OtherLegs(t) = {}
    <3>1. ReversedWith(t) = {t}
      BY <2>1 DEF ReversedWith
    <3> QED
      BY <3>1, FS_Singleton
  <2>2. CASE OtherLegs(t) # {}
    <3>1. PICK u : u \in OtherLegs(t)
      BY <2>2
    <3>2. ReversedWith(t) \in SUBSET ({t} \cup {u})
      BY <1>1, <3>1 DEF ReversedWith
    <3>3. IsFiniteSet({t} \cup {u})
      BY FS_Singleton, FS_AddElement
    <3> QED
      BY <3>2, <3>3, FS_Subset
  <2> QED
    BY <2>1, <2>2
<1>4. ASSUME NEW u \in ReversedWith(t)
      PROVE  tx[u].status = "posted" /\ \A v \in OtherLegs(u) : tx[v].status = "posted" => v \in ReversedWith(t)
  <2>1. CASE u = t
    BY <2>1 DEF ReversedWith
  <2>2. CASE u # t
    BY <1>1, <2>2 DEF ReversedWith
  <2> QED
    BY <2>1, <2>2
<1> QED
  BY <1>2, <1>3, <1>4 DEF Whole

\* A request of another kind, or none, leaves those that reverse.
LEMMA RequestsStayWhole ==
    ASSUME ReviewInv, ReviewInv', TogetherInv, Onward(tx, tx'), Firm(tx, tx'), LegsCome(tx, tx'),
           NEW q \in Request, NEW d, Sits(q, d), d.does = "reverse" => Whole(d.targets)
    PROVE  \A p \in Request : (desk[p].does = "reverse" => Whole(desk[p].targets))'
<1>1. desk' = [p \in Request |-> IF p = q THEN d ELSE desk[p]]
  BY DEF ReviewInv, Sits
<1>2. ASSUME NEW p \in Request, desk'[p].does = "reverse"
      PROVE  Whole(desk[p].targets)'
  <2>1. PICK targets : targets = desk'[p].targets /\ Whole(targets)
    BY <1>1, <1>2 DEF TogetherInv
  <2>2. Whole(targets)'
    BY <2>1, StaysWhole
  <2> QED
    BY <2>1, <2>2 DEF Whole
<1> QED
  BY <1>2

\* A step that ends a request and brings no reversal.
LEMMA TogetherEnds ==
    ASSUME ReviewInv, ReviewInv', TogetherInv, NEW q \in Request, Sits(q, Idle), Kept, Steady(tx, tx')
    PROVE  TogetherInv'
<1>1. Onward(tx, tx') /\ Firm(tx, tx') /\ LegsCome(tx, tx') /\ Idle.does # "reverse"
  BY DEF Kept, Steady, Idle
<1>2. \A p \in Request : (desk[p].does = "reverse" => Whole(desk[p].targets))'
  BY <1>1, RequestsStayWhole
<1> QED
  BY <1>1, <1>2, SteadyKeepsTogether DEF TogetherInv

\* A step that writes no row.
LEMMA TogetherBegins ==
    ASSUME ReviewInv, ReviewInv', TogetherInv, UNCHANGED tx,
           NEW q \in Request, NEW d, Sits(q, d), d.does = "reverse" => Whole(d.targets)
    PROVE  TogetherInv'
<1>1. Onward(tx, tx') /\ Steady(tx, tx')
  BY DEF Onward, SameRow, Steady, Firm, LegsCome, NoneReversed, LegIn
<1>2. \A p \in Request : (desk[p].does = "reverse" => Whole(desk[p].targets))'
  BY <1>1, RequestsStayWhole DEF Steady
<1> QED
  BY <1>1, <1>2, SteadyKeepsTogether DEF TogetherInv

\* Of the first parts, one's alone begins to reverse.
LEMMA BeginsWhole ==
    ASSUME ReviewInv, NEW q \in Request, Begins(q)
    PROVE  UNCHANGED tx /\ \E d : Sits(q, d) /\ (d.does = "reverse" => Whole(d.targets))
<1>1. ASSUME NEW o, BeginDeposit(q, o) \/ BeginWithdrawal(q, o) \/ BeginTransfer(q, o)
      PROVE  UNCHANGED tx /\ \E d : Sits(q, d) /\ d.does # "reverse"
  <2>1. PICK form : Routes(q, o, form)
    BY <1>1 DEF BeginDeposit, BeginWithdrawal, BeginTransfer
  <2>2. PICK d : d = [by |-> o, does |-> "record", form |-> form, chain |-> Route(form[Lead(form)].amount),
                      step |-> FirstStep(Route(form[Lead(form)].amount))]
    OBVIOUS
  <2>3. Sits(q, d) /\ d.does # "reverse" /\ UNCHANGED tx
    BY <2>1, <2>2 DEF Routes, tables
  <2> QED
    BY <2>3
<1>2. ASSUME NEW o, BeginRequest(q, o)
      PROVE  UNCHANGED tx /\ \E d : Sits(q, d) /\ d.does # "reverse"
  <2>1. PICK form : Sits(q, [by |-> o, does |-> "draft", form |-> form])
    BY <1>2 DEF BeginRequest
  <2>2. PICK d : d = [by |-> o, does |-> "draft", form |-> form]
    OBVIOUS
  <2>3. Sits(q, d) /\ d.does # "reverse" /\ UNCHANGED tx
    BY <1>2, <2>1, <2>2 DEF BeginRequest, tables
  <2> QED
    BY <2>3
<1>3. ASSUME NEW o, NEW t, BeginUpdateRequest(q, o, t)
      PROVE  UNCHANGED tx /\ \E d : Sits(q, d) /\ d.does # "reverse"
  <2>1. PICK amount : Sits(q, [by |-> o, does |-> "edit", tx |-> t, amount |-> amount])
    BY <1>3 DEF BeginUpdateRequest
  <2>2. PICK d : d = [by |-> o, does |-> "edit", tx |-> t, amount |-> amount]
    OBVIOUS
  <2>3. Sits(q, d) /\ d.does # "reverse" /\ UNCHANGED tx
    BY <1>3, <2>1, <2>2 DEF BeginUpdateRequest, tables
  <2> QED
    BY <2>3
<1>4. ASSUME NEW o, NEW t, BeginSubmitRequest(q, o, t)
      PROVE  UNCHANGED tx /\ \E d : Sits(q, d) /\ d.does # "reverse"
  <2>1. PICK d : d = [by |-> o, does |-> "send", tx |-> t, chain |-> Route(tx[t].amount),
                      step |-> FirstStep(Route(tx[t].amount))]
    OBVIOUS
  <2>2. Sits(q, d) /\ d.does # "reverse" /\ UNCHANGED tx
    BY <1>4, <2>1 DEF BeginSubmitRequest, tables
  <2> QED
    BY <2>2
<1>5. ASSUME NEW o, NEW t, BeginCancelRequest(q, o, t)
      PROVE  UNCHANGED tx /\ \E d : Sits(q, d) /\ d.does # "reverse"
  <2>1. PICK d : d = [by |-> o, does |-> "drop", tx |-> t]
    OBVIOUS
  <2>2. Sits(q, d) /\ d.does # "reverse" /\ UNCHANGED tx
    BY <1>5, <2>1 DEF BeginCancelRequest, tables
  <2> QED
    BY <2>2
<1>6. ASSUME NEW o, NEW t,
             BeginResubmitDeposit(q, o, t) \/ BeginResubmitWithdrawal(q, o, t) \/ BeginResubmitTransfer(q, o, t)
      PROVE  UNCHANGED tx /\ \E d : Sits(q, d) /\ d.does # "reverse"
  <2>1. PICK a, amount : Corrects(q, o, t, a, amount)
    BY <1>6 DEF BeginResubmitDeposit, BeginResubmitWithdrawal, BeginResubmitTransfer
  <2>2. PICK d : d = [by |-> o, does |-> "resubmit", tx |-> t, amount |-> amount, account |-> a,
                      chain |-> Route(amount), step |-> FirstStep(Route(amount)),
                      leftChain |-> chain[t], leftStep |-> step[t]]
    OBVIOUS
  <2>3. Sits(q, d) /\ d.does # "reverse" /\ UNCHANGED tx
    BY <2>1, <2>2 DEF Corrects, tables
  <2> QED
    BY <2>3
<1>7. ASSUME NEW o, NEW t, BeginReview(q, o, t)
      PROVE  UNCHANGED tx /\ \E d : Sits(q, d) /\ d.does # "reverse"
  <2>1. PICK c : Sits(q, [by |-> o, does |-> "review", tx |-> t, to |-> c.to, step |-> c.step, as |-> c.as])
    BY <1>7 DEF BeginReview
  <2>2. PICK d : d = [by |-> o, does |-> "review", tx |-> t, to |-> c.to, step |-> c.step, as |-> c.as]
    OBVIOUS
  <2>3. Sits(q, d) /\ d.does # "reverse" /\ UNCHANGED tx
    BY <1>7, <2>1, <2>2 DEF BeginReview, tables
  <2> QED
    BY <2>3
<1>8. ASSUME NEW o, NEW t, BeginPost(q, o, t)
      PROVE  UNCHANGED tx /\ \E d : Sits(q, d) /\ d.does # "reverse"
  <2>1. PICK d : d = [by |-> o, does |-> "post", tx |-> t]
    OBVIOUS
  <2>2. Sits(q, d) /\ d.does # "reverse" /\ UNCHANGED tx
    BY <1>8, <2>1 DEF BeginPost, tables
  <2> QED
    BY <2>2
<1>9. ASSUME NEW o, NEW t \in Tx, BeginReverse(q, o, t)
      PROVE  UNCHANGED tx /\ \E d : Sits(q, d) /\ Whole(d.targets)
  <2>1. PICK d : d = [by |-> o, does |-> "reverse", targets |-> ReversedWith(t)]
    OBVIOUS
  <2>2. Sits(q, d) /\ d.targets = ReversedWith(t) /\ UNCHANGED tx /\ tx[t].status = "posted"
    BY <1>9, <2>1 DEF BeginReverse, tables
  <2> QED
    BY <2>2, ReversesWhole
<1> QED
  BY <1>1, <1>2, <1>3, <1>4, <1>5, <1>6, <1>7, <1>8, <1>9 DEF Begins

LEMMA TogetherStarts == Init => TogetherInv
<1> SUFFICES ASSUME Init PROVE TogetherInv
  OBVIOUS
<1>1. (\A t \in Tx : tx[t] = NoRow /\ tx[t].status = "none") /\ \A q \in Request : desk[q].does = "nothing"
  BY DEF Init, EmptyTables, NoRow, Idle
<1>2. \A t \in Tx : ReversalsOf(t) = {}
  BY <1>1 DEF ReversalsOf
<1>3. ReversedTogether
  BY <1>1 DEF ReversedTogether
<1> QED
  BY <1>1, <1>2, <1>3, FS_EmptySet DEF TogetherInv

LEMMA TogetherStays == ReviewInv /\ ReviewInv' /\ TogetherInv /\ [Next]_vars => TogetherInv'
<1> SUFFICES ASSUME ReviewInv, ReviewInv', TogetherInv, [Next]_vars PROVE TogetherInv'
  OBVIOUS
<1>1. ASSUME NEW q \in Request, Begins(q)
      PROVE  TogetherInv'
  BY <1>1, BeginsWhole, TogetherBegins
<1>2. ASSUME NEW q \in Request, Commits(q)
      PROVE  TogetherInv'
  <2>1. CASE CommitDeposit(q) \/ CommitWithdrawal(q) \/ CommitTransfer(q)
    <3>1. Sits(q, Idle) /\ Kept /\ Steady(tx, tx')
      BY <2>1, RecordedKeeps DEF CommitDeposit, CommitWithdrawal, CommitTransfer, Recorded
    <3> QED
      BY <3>1, TogetherEnds
  <2>2. CASE CommitRequest(q)
    <3>1. Sits(q, Idle) /\ Kept /\ Steady(tx, tx')
      BY <2>2, DraftKeeps DEF CommitRequest
    <3> QED
      BY <3>1, TogetherEnds
  <2>3. CASE CommitUpdateRequest(q) \/ CommitCancelRequest(q)
    <3>1. Sits(q, Idle) /\ Kept /\ Steady(tx, tx')
      BY <2>3, UpdateKeeps DEF CommitUpdateRequest, CommitCancelRequest
    <3> QED
      BY <3>1, TogetherEnds
  <2>4. CASE CommitSubmitRequest(q)
    <3>1. Sits(q, Idle) /\ Kept /\ Steady(tx, tx')
      BY <2>4, SendKeeps DEF CommitSubmitRequest
    <3> QED
      BY <3>1, TogetherEnds
  <2>5. CASE CommitResubmitDeposit(q) \/ CommitResubmitWithdrawal(q) \/ CommitResubmitTransfer(q)
    <3>1. Sits(q, Idle) /\ Kept /\ Steady(tx, tx')
      BY <2>5, ResubmittedKeeps DEF CommitResubmitDeposit, CommitResubmitWithdrawal, CommitResubmitTransfer, Resubmitted
    <3> QED
      BY <3>1, TogetherEnds
  <2>6. CASE CommitReview(q)
    <3>1. Sits(q, Idle) /\ Kept /\ Steady(tx, tx')
      BY <2>6, ReviewKeeps DEF CommitReview
    <3> QED
      BY <3>1, TogetherEnds
  <2>7. CASE CommitPost(q)
    <3>1. Sits(q, Idle) /\ Kept /\ Steady(tx, tx')
      BY <2>7, PostKeeps DEF CommitPost
    <3> QED
      BY <3>1, TogetherEnds
  <2>8. CASE CommitReverse(q)
    <3>1. Sits(q, Idle) /\ Onward(tx, tx') /\ Firm(tx, tx') /\ LegsCome(tx, tx')
      BY <2>8, ReverseKeeps DEF CommitReverse, Kept
    <3>2. \A p \in Request : (desk[p].does = "reverse" => Whole(desk[p].targets))'
      BY <3>1, RequestsStayWhole DEF Idle
    <3> QED
      BY <2>8, <3>1, <3>2, ReversalKeepsTogether DEF TogetherInv
  <2> QED
    BY <1>2, <2>1, <2>2, <2>3, <2>4, <2>5, <2>6, <2>7, <2>8 DEF Commits
<1>3. ASSUME NEW q \in Request, Abandon(q)
      PROVE  TogetherInv'
  <2>1. Sits(q, Idle) /\ UNCHANGED tx /\ Idle.does # "reverse"
    BY <1>3 DEF Abandon, tables, Idle
  <2> QED
    BY <2>1, TogetherBegins
<1>4. ASSUME UNCHANGED <<tx, desk>>
      PROVE  TogetherInv'
  BY <1>4 DEF TogetherInv, ReversedTogether, ReversalsOf, OtherLegs, Whole
<1>5. ASSUME NEW c \in Chain, NEW s \in Step, Toggle(c, s)
      PROVE  TogetherInv'
  BY <1>4, <1>5 DEF Toggle, tables
<1>6. CASE UNCHANGED vars
  BY <1>4, <1>6 DEF vars, tables
<1> QED
  BY <1>1, <1>2, <1>3, <1>5, <1>6 DEF Next

LEMMA TogetherStaysOn == ReviewInv /\ ReviewInv' /\ TogetherInv /\ [ExitNext]_vars => TogetherInv'
<1> SUFFICES ASSUME ReviewInv, ReviewInv', TogetherInv, [ExitNext]_vars PROVE TogetherInv'
  OBVIOUS
<1>1. CASE [Next]_vars
  BY <1>1, TogetherStays
<1>2. ASSUME NEW q \in Request, ExitCommits(q)
      PROVE  TogetherInv'
  BY <1>2, ExitKeeps, TogetherEnds
<1>3. ASSUME NEW q \in Request, NEW o \in Captors, ExitBegins(q, o)
      PROVE  TogetherInv'
  <2>1. UNCHANGED tx
    BY <1>3, ExitBegun DEF tables
  <2>2. PICK d : /\ Sits(q, d) /\ RequestIn(d, tx, audit) /\ d.does # "reverse"
                 /\ d.does = "submit" => d.settles \subseteq Covers(tx[d.tx])
    BY <1>3, ExitBeginsWell
  <2> QED
    BY <2>1, <2>2, TogetherBegins
<1> QED
  BY <1>1, <1>2, <1>3 DEF ExitNext

\* One call reverses both legs of a transfer: however many calls raced, and
\* whichever of them failed, one leg has as many reversals as the other
\* (reversals.ts; docs/ledger.md, Reversal).
THEOREM LegsReversedTogether == Spec \/ ExitSpec => []ReversedTogether
<1>1. TogetherInv => ReversedTogether
  BY DEF TogetherInv
<1> QED
  BY <1>1, Reviewed, TogetherStarts, TogetherStaysOn, WithoutExits, PTL DEF ExitSpec

----------------------------------------------------------------------------
(* What exits settle *)

Waiting == {"submitted", "under_review", "approved", "returned"}

\* An account that is closing has an exit that waits.
ClosingIn(accts, rows) ==
    \A a \in Account : accts[a] = "closing" =>
        \E t \in Tx : rows[t].status \in Waiting /\ rows[t].kind \in ExitKind /\ a \in Covers(rows[t])

\* What an exit says it settles, and for whom.
SameExit(r, s) == r.kind = s.kind /\ r.account = s.account /\ r.claimant = s.claimant

ExitsStay(rows, later) ==
    \A t \in Tx : rows[t] # NoRow /\ rows[t].kind \in ExitKind => SameExit(later[t], rows[t])

\* Nothing is carried over, and what is no exit moves an amount.
Plain(rows) ==
    \A t \in Tx : rows[t] # NoRow =>
        ~rows[t].carried /\ (rows[t].kind \notin ExitKind => rows[t].amount \in Int)

\* What a request has read, besides what RequestIn says.
DeskIn(d, rows) ==
    /\ d.does = "submit" => d.settles \subseteq Covers(rows[d.tx])
    /\ d.does \in {"edit", "resubmit"} => d.amount \in Int
    /\ d.does = "start" => ~d.row.carried
    /\ d.does = "reverse" => \A t \in d.targets : rows[t].kind \notin ExitKind

ExitInv ==
    /\ ClosingIn(account, tx)
    /\ Plain(tx)
    /\ \A a \in Account : cache[a].balance \in Int
    /\ NothingLeftOnClosed
    /\ \A q \in Request : DeskIn(desk[q], tx)

\* A handler's transaction writes rows and account statuses ...
Written(rows, accts) ==
    /\ RowsIn(rows) /\ Onward(tx, rows) /\ ExitsStay(tx, rows) /\ Plain(rows) /\ ClosingIn(accts, rows)
    /\ \A a \in Account : accts[a] = "closed" <=> account[a] = "closed"
    /\ \A t \in Tx : tx[t].status = "posted" => rows[t] = tx[t]

\* ... and leaves them so, or posts what it sent off, or reversals.
Ended(rows, accts) ==
    \/ tx' = rows /\ account' = accts /\ UNCHANGED <<holder, cache>>
    \/ \E head \in Tx : \E steps : PostAndEnd(head, rows, accts, steps)
    \/ \E ids \in SUBSET Tx : /\ PostAll(ids, rows, accts)
                              /\ \A t \in ids : IsRow(rows[t]) /\ rows[t].kind = "reversal"

LEMMA SameCovers ==
    ASSUME NEW r, NEW s, SameExit(r, s)
    PROVE  Covers(r) = Covers(s) /\ (SettlesTogether(r) <=> SettlesTogether(s)) /\ (OnDeath(r) <=> OnDeath(s))
<1>1. SettlesTogether(r) <=> SettlesTogether(s)
  BY DEF SameExit, SettlesTogether
<1>2. r.account = s.account /\ r.kind = s.kind
  BY DEF SameExit
<1> QED
  BY <1>1, <1>2 DEF Covers, OnDeath, SameExit

\* An account stays with its exit as long as the exit waits.
LEMMA ClosingOn ==
    ASSUME NEW accts, NEW rows, ClosingIn(accts, rows), NEW later, ExitsStay(rows, later),
           \A t \in Tx : rows[t].status \in Waiting /\ rows[t].kind \in ExitKind => later[t].status \in Waiting
    PROVE  ClosingIn(accts, later)
<1> SUFFICES ASSUME NEW a \in Account, accts[a] = "closing"
             PROVE  \E t \in Tx : later[t].status \in Waiting /\ later[t].kind \in ExitKind /\ a \in Covers(later[t])
  BY DEF ClosingIn
<1>1. PICK t \in Tx : rows[t].status \in Waiting /\ rows[t].kind \in ExitKind /\ a \in Covers(rows[t])
  BY DEF ClosingIn
<1>2. rows[t] # NoRow
  BY <1>1 DEF NoRow, Waiting
<1>3. SameExit(later[t], rows[t]) /\ later[t].status \in Waiting
  BY <1>1, <1>2 DEF ExitsStay
<1> QED
  BY <1>1, <1>3, SameCovers DEF SameExit

LEMMA ExitHasNoLegs ==
    ASSUME NEW rows, Onward(tx, rows), NEW t \in Tx, rows[t].kind \in ExitKind
    PROVE  OtherLegs(t) = {}
<1>1. tx[t] = NoRow \/ tx[t].kind = rows[t].kind
  BY DEF Onward, SameRow
<1> QED
  BY <1>1 DEF OtherLegs, ExitKind

\* An exit is posted alone.
LEMMA ExitPostsAlone ==
    ASSUME NEW rows, NEW head, NEW t \in PostedWith(head, rows), rows[t].kind \in ExitKind
    PROVE  t = head /\ PostedWith(head, rows) = {head}
<1>1. t = head
  BY DEF PostedWith, CreditLegOf, ExitKind
<1> QED
  BY <1>1 DEF PostedWith, CreditLegOf, ExitKind

\* A posting writes nothing of a row but its status, and a death cancels the
\* drafts and the returned transactions of who died.
LEMMA EndWrites ==
    ASSUME NEW rows, RowsIn(rows), NEW head \in Tx, NEW accts, NEW steps,
           PostAndEnd(head, rows, accts, steps), NEW S, S = PostedWith(head, rows)
    PROVE  \E G, after, holders :
             /\ holders = Marked(rows[head], AccountsAfter(S, rows, accts), HoldersAfter(S, rows))
             /\ holder' = holders
             /\ after = RowsAfter(S, rows)
             /\ G = CancelledBy(rows[head], after, holders)
             /\ G \in SUBSET (Tx \ S)
             /\ \A t \in G : IsRow(rows[t])
             /\ tx' = [t \in Tx |-> IF t \in G THEN [rows[t] EXCEPT !.status = "cancelled"] ELSE after[t]]
<1>1. PICK G, after, holders :
             /\ holders = Marked(rows[head], AccountsAfter(S, rows, accts), HoldersAfter(S, rows))
             /\ after = RowsAfter(S, rows)
             /\ G = CancelledBy(rows[head], after, holders)
  OBVIOUS
<1>2. /\ holder' = holders
      /\ tx' = [t \in Tx |-> IF t \in G THEN [rows[t] EXCEPT !.status = "cancelled"] ELSE after[t]]
      /\ Enter(S, rows, accts)
  BY <1>1 DEF PostAndEnd
<1>3. G \in SUBSET Tx /\ \A t \in G : after[t].status \in {"draft", "returned"}
  BY <1>1 DEF CancelledBy, DraftsOf
<1>4. ASSUME NEW t \in G
      PROVE  t \notin S /\ IsRow(rows[t])
  <2>1. CASE t \in S
    <3>1. after[t] = [rows[t] EXCEPT !.status = "posted"] /\ rows[t].status \in {"submitted", "approved"}
      BY <1>1, <1>2, <1>3, <2>1 DEF RowsAfter, Enter, CanPost
    <3>2. IsRow(rows[t])
      BY <1>3, <3>1 DEF RowsIn, NoRow
    <3> QED
      BY <1>3, <3>1, <3>2, StatusWritten DEF Becomes, Status
  <2>2. CASE t \notin S
    <3>1. after[t] = rows[t]
      BY <1>1, <1>3, <2>2 DEF RowsAfter
    <3> QED
      BY <1>3, <2>2, <3>1 DEF RowsIn, NoRow
  <2> QED
    BY <2>1, <2>2
<1> QED
  BY <1>1, <1>2, <1>3, <1>4

LEMMA StatusAlone ==
    ASSUME NEW r, IsRow(r), NEW status, NEW s, s = [r EXCEPT !.status = status]
    PROVE  SameExit(s, r) /\ s.carried = r.carried /\ s.amount = r.amount /\ s.status = status
BY DEF IsRow, SameExit

LEMMA EndStays ==
    ASSUME NEW rows, RowsIn(rows), NEW head \in Tx, NEW accts, NEW steps,
           PostAndEnd(head, rows, accts, steps)
    PROVE  \A t \in Tx : IF rows[t] = NoRow THEN tx'[t] = NoRow
                         ELSE SameExit(tx'[t], rows[t]) /\ tx'[t].carried = rows[t].carried
                              /\ tx'[t].amount = rows[t].amount
<1>1. PICK S : S = PostedWith(head, rows)
  OBVIOUS
<1>2. PICK G, after :
             /\ after = RowsAfter(S, rows)
             /\ \A t \in G : IsRow(rows[t])
             /\ tx' = [t \in Tx |-> IF t \in G THEN [rows[t] EXCEPT !.status = "cancelled"] ELSE after[t]]
  BY <1>1, EndWrites
<1>3. \A t \in Tx : rows[t] = NoRow => tx'[t] = NoRow
  <2>2. \A t \in S : IsRow(rows[t])
    BY <1>1, PostEffect
  <2> QED
    BY <1>2, <2>2, RowIsThere DEF RowsAfter
<1>4. ASSUME NEW t \in Tx, rows[t] # NoRow
      PROVE  SameExit(tx'[t], rows[t]) /\ tx'[t].carried = rows[t].carried /\ tx'[t].amount = rows[t].amount
  <2>1. IsRow(rows[t])
    BY <1>4 DEF RowsIn
  <2>2. \/ tx'[t] = rows[t]
        \/ tx'[t] = [rows[t] EXCEPT !.status = "cancelled"]
        \/ tx'[t] = [rows[t] EXCEPT !.status = "posted"]
    BY <1>2 DEF RowsAfter
  <2> QED
    BY <2>1, <2>2, StatusAlone DEF SameExit
<1> QED
  BY <1>3, <1>4

\* What a posting closes: what its exit settles that was closing, and for a
\* closure the account it names.
LEMMA EndCloses ==
    ASSUME NEW rows, NEW head \in Tx, NEW accts, NEW steps,
           PostAndEnd(head, rows, accts, steps),
           NEW t \in PostedWith(head, rows), rows[t].kind \in ExitKind,
           NEW a \in Account, accts[a] = "closing", a \in Covers(rows[t])
    PROVE  account'[a] = "closed"
<1>1. PICK S : S = PostedWith(head, rows)
  OBVIOUS
<1>2. account' = AccountsAfter(S, rows, accts)
  BY <1>1 DEF PostAndEnd, Enter
<1>3. a \in ClosedBy(rows[t], accts)
  <2>1. CASE SettlesTogether(rows[t])
    BY <2>1 DEF ClosedBy, Leaving
  <2>2. CASE ~SettlesTogether(rows[t])
    BY <2>2 DEF ClosedBy, Covers, SettlesTogether, ExitKind
  <2> QED
    BY <2>1, <2>2
<1> QED
  BY <1>1, <1>2, <1>3 DEF AccountsAfter

\* No account is left closing by a posting but for an exit that still waits:
\* what a death cancels, that death closes.
LEMMA EndClosing ==
    ASSUME NEW rows, RowsIn(rows), Onward(tx, rows), NEW head \in Tx, NEW accts, NEW steps,
           PostAndEnd(head, rows, accts, steps), ClosingIn(accts, rows)
    PROVE  ClosingIn(account', tx')
<1>1. PICK S : S = PostedWith(head, rows)
  OBVIOUS
<1>2. PICK G, after, holders :
             /\ after = RowsAfter(S, rows)
             /\ G = CancelledBy(rows[head], after, holders)
             /\ tx' = [t \in Tx |-> IF t \in G THEN [rows[t] EXCEPT !.status = "cancelled"] ELSE after[t]]
  BY <1>1, EndWrites
<1>3. account' = AccountsAfter(S, rows, accts) /\ head \in S
  BY <1>1 DEF PostAndEnd, Enter, PostedWith
<1> SUFFICES ASSUME NEW a \in Account, account'[a] = "closing"
             PROVE  \E t \in Tx : tx'[t].status \in Waiting /\ tx'[t].kind \in ExitKind /\ a \in Covers(tx'[t])
  BY DEF ClosingIn
<1>4. accts[a] = "closing"
  BY <1>3 DEF AccountsAfter
<1>5. PICK t \in Tx : rows[t].status \in Waiting /\ rows[t].kind \in ExitKind /\ a \in Covers(rows[t])
  BY <1>4 DEF ClosingIn
<1>6. t \notin S
  BY <1>1, <1>4, <1>5, EndCloses
<1>7. ASSUME t \in G
      PROVE  FALSE
  <2>1. /\ rows[head].kind \in {"demise", "closure"} /\ rows[head].claimant
        /\ \E u \in {t} \cup OtherLegs(t) : HolderOf[after[u].account] = HolderOf[rows[head].account]
    BY <1>2, <1>7 DEF CancelledBy, DraftsOf
  <2>2. HolderOf[rows[t].account] = HolderOf[rows[head].account]
    <3>1. OtherLegs(t) = {}
      BY <1>5, ExitHasNoLegs
    <3>2. after[t] = rows[t]
      BY <1>2, <1>6 DEF RowsAfter
    <3> QED
      BY <2>1, <3>1, <3>2
  <2>3. HolderOf[a] = HolderOf[rows[head].account]
    BY <1>5, <2>2 DEF Covers
  <2>4. a \in Covers(rows[head]) /\ rows[head].kind \in ExitKind
    BY <2>1, <2>3 DEF Covers, SettlesTogether, ExitKind
  <2> QED
    BY <1>1, <1>3, <1>4, <2>4, EndCloses
<1>8. tx'[t] = rows[t]
  BY <1>2, <1>6, <1>7 DEF RowsAfter
<1> QED
  BY <1>5, <1>8

\* Who is marked demised has no draft left: the posting that marks them is a
\* claim's, or the last closure on their death, and cancels what they have.
LEMMA EndDraftless ==
    ASSUME NEW rows, RowsIn(rows), NEW head \in Tx, NEW accts, NEW steps,
           PostAndEnd(head, rows, accts, steps),
           NEW h \in Holder, holder[h] # "demised", holder'[h] = "demised"
    PROVE  DraftsOf(h, tx') = {}
<1>1. PICK S : S = PostedWith(head, rows)
  OBVIOUS
<1>2. PICK G, after, holders :
             /\ holders = Marked(rows[head], AccountsAfter(S, rows, accts), HoldersAfter(S, rows))
             /\ holder' = holders
             /\ after = RowsAfter(S, rows)
             /\ G = CancelledBy(rows[head], after, holders)
             /\ \A t \in G : IsRow(rows[t])
             /\ tx' = [t \in Tx |-> IF t \in G THEN [rows[t] EXCEPT !.status = "cancelled"] ELSE after[t]]
  BY <1>1, EndWrites
<1>3. rows[head].kind \in {"demise", "closure"} /\ rows[head].claimant /\ h = HolderOf[rows[head].account]
  <2>1. CASE HoldersAfter(S, rows)[h] = "demised"
    <3>1. PICK t \in S : Ends(rows[t], h) /\ rows[t].kind \in ExitKind
      BY <2>1 DEF HoldersAfter, Ends, ExitKind
    <3>2. t = head /\ S = {head}
      BY <1>1, <3>1, ExitPostsAlone
    <3>3. rows[head].kind = "demise"
      BY <2>1, <3>1, <3>2 DEF HoldersAfter
    <3>4. IsRow(rows[head])
      BY <1>1, PostEffect
    <3> QED
      BY <3>1, <3>2, <3>3, <3>4 DEF IsRow, Ends
  <2>2. CASE HoldersAfter(S, rows)[h] # "demised"
    BY <1>2, <2>2 DEF Marked
  <2> QED
    BY <2>1, <2>2
<1>4. G = DraftsOf(h, after)
  BY <1>2, <1>3 DEF CancelledBy
<1>5. \A t \in Tx : t \notin G => tx'[t] = after[t]
  BY <1>2
<1>6. \A t \in G : tx'[t].status = "cancelled"
  BY <1>2, <1>4 DEF DraftsOf, IsRow
<1>7. ASSUME NEW t \in DraftsOf(h, tx')
      PROVE  FALSE
  <2>1. t \in Tx \ G /\ tx'[t].status \in {"draft", "returned"}
    BY <1>6 DEF DraftsOf
  <2>2. PICK u \in {t} \cup OtherLegs(t) : HolderOf[tx'[u].account] = h
    BY DEF DraftsOf
  <2>3. tx'[u].account = after[u].account
    <3>1. CASE u \in G
      <4>1. tx'[u].account = rows[u].account
        BY <1>2, <1>4, <3>1, StatusAlone DEF SameExit, DraftsOf
      <4>2. after[u].account = rows[u].account
        <5>1. IsRow(rows[u])
          BY <1>2, <3>1
        <5> QED
          BY <1>2, <1>4, <3>1, <5>1, StatusAlone DEF SameExit, RowsAfter, DraftsOf
      <4> QED
        BY <4>1, <4>2
    <3>2. CASE u \notin G
      BY <1>5, <2>1, <2>2, <3>2 DEF OtherLegs
    <3> QED
      BY <3>1, <3>2
  <2> QED
    BY <1>4, <1>5, <2>1, <2>2, <2>3 DEF DraftsOf
<1> QED
  BY <1>7

----------------------------------------------------------------------------
(* What a posting moves *)

\* An account moves by one movement of what is posted, or not at all.
LEMMA CacheMoves ==
    ASSUME NEW S, NEW rows, NEW accts, Enter(S, rows, accts), NEW a \in Account
    PROVE  /\ (\A t \in S : \A m \in Movements(t, rows[t], accts) : m.account # a) => cache'[a] = cache[a]
           /\ \/ cache'[a] = cache[a]
              \/ \E t \in S : \E m \in Movements(t, rows[t], accts) :
                     /\ m.account = a
                     /\ cache'[a].balance = cache[a].balance + Signed(m.direction, m.amount)
<1>1. PICK M : M = UNION {Movements(t, rows[t], accts) : t \in S}
  OBVIOUS
<1>2. cache'[a] = IF a \in Moved(M) THEN CacheAfter(a, M) ELSE cache[a]
  BY <1>1 DEF Enter
<1>3. a \in Moved(M) => MovedOn(a, M) \in M /\ MovedOn(a, M).account = a
  BY DEF Moved, MovedOn
<1>4. CacheAfter(a, M).balance = cache[a].balance + Signed(MovedOn(a, M).direction, MovedOn(a, M).amount)
  BY DEF CacheAfter, BalanceAfter
<1> QED
  BY <1>1, <1>2, <1>3, <1>4

\* What is settled together goes out of its accounts as they stand; any other
\* transaction moves its amount on its account.
LEMMA MovementIs ==
    ASSUME NEW t, NEW r, NEW accts, NEW m \in Movements(t, r, accts)
    PROVE  IF SettlesTogether(r)
           THEN /\ m.account \in Leaving(r, accts)
                /\ m.direction = "debit" /\ m.amount = cache[m.account].balance
           ELSE m.account = r.account /\ m.direction = DirectionOf(r) /\ m.amount = r.amount
<1>1. CASE SettlesTogether(r)
  <2>1. PICK a \in {b \in Leaving(r, accts) : cache[b].balance > 0} :
            m = [account |-> a, tx |-> t, direction |-> "debit", amount |-> cache[a].balance]
    BY <1>1 DEF Movements
  <2> QED
    BY <1>1, <2>1
<1>2. CASE ~SettlesTogether(r)
  BY <1>2 DEF Movements
<1> QED
  BY <1>1, <1>2

\* Nothing moves on a closed account.
LEMMA ClosedRests ==
    ASSUME NEW S, NEW rows, NEW accts, Enter(S, rows, accts), \A t \in S : ~rows[t].carried,
           NEW a \in Account, accts[a] = "closed"
    PROVE  cache'[a] = cache[a]
<1>1. ASSUME NEW t \in S, NEW m \in Movements(t, rows[t], accts), m.account = a
      PROVE  FALSE
  <2>1. OpenTo(rows[t], accts)
    BY DEF Enter, CanPost
  <2>2. m.account = rows[t].account \/ m.account \in Leaving(rows[t], accts)
    BY MovementIs
  <2> QED
    BY <1>1, <2>1, <2>2 DEF OpenTo, Leaving
<1> QED
  BY <1>1, CacheMoves

\* A balance stays a number.
LEMMA BalanceStays ==
    ASSUME NEW S, NEW rows, NEW accts, Enter(S, rows, accts),
           \A t \in S : rows[t].kind \notin ExitKind => rows[t].amount \in Int,
           \A a \in Account : cache[a].balance \in Int,
           NEW a \in Account
    PROVE  cache'[a].balance \in Int
<1>1. ASSUME NEW t \in S, NEW m \in Movements(t, rows[t], accts), m.account = a
      PROVE  m.amount \in Int
  <2>1. CASE SettlesTogether(rows[t])
    BY <1>1, <2>1, MovementIs
  <2>2. CASE ~SettlesTogether(rows[t]) /\ rows[t].kind \in ExitKind
    <3>1. rows[t].amount = cache[rows[t].account].balance
      BY <2>2 DEF Enter, CanPost, PaysWhatIsThere, SettlesTogether, ExitKind
    <3> QED
      BY <1>1, <2>2, <3>1, MovementIs
  <2>3. CASE ~SettlesTogether(rows[t]) /\ rows[t].kind \notin ExitKind
    BY <1>1, <2>3, MovementIs
  <2> QED
    BY <2>1, <2>2, <2>3
<1>2. \A d : \A n \in Int : Signed(d, n) \in Int
  BY DEF Signed
<1> QED
  BY <1>1, <1>2, CacheMoves

\* What an exit closes is paid out, but the account a death's closure names.
LEMMA ExitEmpties ==
    ASSUME NEW t, NEW rows, NEW accts, Enter({t}, rows, accts), rows[t].kind \in ExitKind,
           NEW a \in Account, cache[a].balance \in Int, a \in ClosedBy(rows[t], accts)
    PROVE  cache'[a].balance <= 0 \/ (OnDeath(rows[t]) /\ rows[t].account = a)
<1>1. CASE SettlesTogether(rows[t]) /\ a \in Leaving(rows[t], accts)
  <2>1. CASE cache[a].balance > 0
    <3>1. [account |-> a, tx |-> t, direction |-> "debit", amount |-> cache[a].balance]
             \in Movements(t, rows[t], accts)
      BY <1>1, <2>1 DEF Movements
    <3>2. PICK M : M = UNION {Movements(u, rows[u], accts) : u \in {t}}
      OBVIOUS
    <3>3. M = Movements(t, rows[t], accts)
      BY <3>2
    <3>4. a \in Moved(M) /\ MovedOn(a, M) \in M /\ MovedOn(a, M).account = a
      BY <3>1, <3>3 DEF Moved, MovedOn
    <3>5. cache'[a] = CacheAfter(a, M)
      BY <3>2, <3>4 DEF Enter
    <3>6. MovedOn(a, M).direction = "debit" /\ MovedOn(a, M).amount = cache[a].balance
      BY <1>1, <3>3, <3>4, MovementIs
    <3>7. cache'[a].balance = cache[a].balance + Signed("debit", cache[a].balance)
      BY <3>5, <3>6 DEF CacheAfter, BalanceAfter
    <3> QED
      BY <3>7 DEF Signed
  <2>2. CASE ~(cache[a].balance > 0)
    <3>1. \A m \in Movements(t, rows[t], accts) : m.account # a
      BY <1>1, <2>2 DEF Movements
    <3>2. cache'[a] = cache[a]
      BY <3>1, CacheMoves
    <3> QED
      BY <2>2, <3>2
  <2> QED
    BY <2>1, <2>2
<1>2. CASE ~(SettlesTogether(rows[t]) /\ a \in Leaving(rows[t], accts))
  <2>1. rows[t].kind = "closure" /\ a = rows[t].account
    BY <1>2 DEF ClosedBy
  <2>2. CASE rows[t].claimant
    BY <2>1, <2>2 DEF OnDeath
  <2>3. CASE ~rows[t].claimant
    <3>1. ~SettlesTogether(rows[t]) /\ rows[t].amount = cache[a].balance /\ DirectionOf(rows[t]) = "debit"
      BY <2>1, <2>3 DEF SettlesTogether, Enter, CanPost, PaysWhatIsThere, DirectionOf
    <3>2. PICK m : m = [account |-> a, tx |-> t, direction |-> "debit", amount |-> cache[a].balance]
      OBVIOUS
    <3>3. Movements(t, rows[t], accts) = {n \in {m} : n.amount > 0} /\ m.amount = cache[a].balance
      BY <2>1, <3>1, <3>2 DEF Movements
    <3>4. CASE cache[a].balance > 0
      <4>1. PICK M : M = UNION {Movements(u, rows[u], accts) : u \in {t}}
        OBVIOUS
      <4>2. M = {m}
        BY <3>3, <3>4, <4>1
      <4>3. a \in Moved(M) /\ MovedOn(a, M) = m
        BY <3>2, <4>2 DEF Moved, MovedOn
      <4>4. cache'[a] = CacheAfter(a, M)
        BY <4>1, <4>3 DEF Enter
      <4>5. cache'[a].balance = cache[a].balance + Signed("debit", cache[a].balance)
        BY <3>2, <4>3, <4>4 DEF CacheAfter, BalanceAfter
      <4> QED
        BY <4>5 DEF Signed
    <3>5. CASE ~(cache[a].balance > 0)
      <4>1. cache'[a] = cache[a]
        BY <3>3, <3>5, CacheMoves
      <4> QED
        BY <3>5, <4>1
    <3> QED
      BY <3>4, <3>5
  <2> QED
    BY <2>2, <2>3
<1> QED
  BY <1>1, <1>2

----------------------------------------------------------------------------
(* What a handler's transaction leaves of the exits *)

ExitKept ==
    /\ ClosingIn(account', tx')
    /\ Plain(tx')
    /\ \A a \in Account : cache'[a].balance \in Int
    /\ NothingLeftOnClosed'
    /\ ExitsStay(tx, tx')
    /\ \A h \in Holder : holder[h] # "demised" /\ holder'[h] = "demised" => DraftsOf(h, tx') = {}

\* Nothing comes to lie on a closed account, and what excuses it stays posted.
LEMMA LeftStays ==
    ASSUME NothingLeftOnClosed, NEW a \in Account, account[a] = "closed", cache'[a] = cache[a],
           \A t \in Tx : tx[t].status = "posted" => tx'[t] = tx[t]
    PROVE  \/ cache'[a].balance <= 0
           \/ \E t \in Tx : tx'[t].status = "posted" /\ OnDeath(tx'[t]) /\ tx'[t].account = a
BY DEF NothingLeftOnClosed

LEMMA LeftIs ==
    ASSUME \A a \in Account : account'[a] = "closed" =>
               \/ cache'[a].balance <= 0
               \/ \E t \in Tx : tx'[t].status = "posted" /\ OnDeath(tx'[t]) /\ tx'[t].account = a
    PROVE  NothingLeftOnClosed'
BY DEF NothingLeftOnClosed, OnDeath

LEMMA WrittenKeeps ==
    ASSUME ExitInv, NEW rows, NEW accts, Written(rows, accts),
           tx' = rows, account' = accts, UNCHANGED <<holder, cache>>
    PROVE  ExitKept
<1>1. ASSUME NEW a \in Account, account'[a] = "closed"
      PROVE  \/ cache'[a].balance <= 0
             \/ \E t \in Tx : tx'[t].status = "posted" /\ OnDeath(tx'[t]) /\ tx'[t].account = a
  BY <1>1, LeftStays DEF Written, ExitInv
<1>2. NothingLeftOnClosed'
  BY <1>1, LeftIs
<1> QED
  BY <1>2 DEF ExitKept, Written, ExitInv

LEMMA ExitsStayOn ==
    ASSUME NEW rows, Onward(tx, rows), ExitsStay(tx, rows), ExitsStay(rows, tx')
    PROVE  ExitsStay(tx, tx')
BY DEF ExitsStay, Onward, SameExit

LEMMA EndKeeps ==
    ASSUME ExitInv, NEW rows, NEW accts, Written(rows, accts), NEW head \in Tx, NEW steps,
           PostAndEnd(head, rows, accts, steps)
    PROVE  ExitKept
<1>1. PICK S : S = PostedWith(head, rows)
  OBVIOUS
<1>2. RowsIn(rows) /\ Onward(tx, rows) /\ ExitsStay(tx, rows) /\ Plain(rows) /\ ClosingIn(accts, rows)
  BY DEF Written
<1>3. /\ S \in SUBSET Tx /\ Enter(S, rows, accts)
      /\ \A t \in S : IsRow(rows[t]) /\ rows[t].status \in {"submitted", "approved"} /\ tx'[t].status = "posted"
  BY <1>1, <1>2, PostEffect DEF Becomes
<1>4. \A t \in Tx : rows[t].status = "posted" => tx'[t] = rows[t]
  <2>1. PICK G \in SUBSET (Tx \ S) :
                /\ \A t \in G : /\ IsRow(rows[t]) /\ rows[t].status \in {"draft", "returned"}
                                /\ Becomes(tx'[t], rows[t], "cancelled")
                /\ \A t \in Tx \ (S \cup G) : tx'[t] = rows[t]
                /\ transfer' = [x \in Transfer |->
                      IF \E t \in G : rows[t].transfer = x THEN "cancelled"
                      ELSE IF rows[head].transfer = x THEN "posted" ELSE transfer[x]]
    BY <1>1, <1>2, PostEffect
  <2> QED
    BY <1>3, <2>1
<1>5. \A t \in Tx : IF rows[t] = NoRow THEN tx'[t] = NoRow
                    ELSE SameExit(tx'[t], rows[t]) /\ tx'[t].carried = rows[t].carried
                         /\ tx'[t].amount = rows[t].amount
  BY <1>2, EndStays
<1>6. ClosingIn(account', tx')
  BY <1>2, EndClosing
<1>7. Plain(tx')
  BY <1>2, <1>5 DEF Plain, SameExit
<1>8. ExitsStay(tx, tx')
  <2>1. ExitsStay(rows, tx')
    BY <1>5 DEF ExitsStay
  <2> QED
    BY <1>2, <2>1, ExitsStayOn
<1>9. \A t \in S : rows[t] # NoRow /\ ~rows[t].carried /\ (rows[t].kind \notin ExitKind => rows[t].amount \in Int)
  BY <1>2, <1>3, RowIsThere DEF Plain
<1>10. \A a \in Account : cache[a].balance \in Int
  BY DEF ExitInv
<1>11. \A a \in Account : cache'[a].balance \in Int
  BY <1>3, <1>9, <1>10, BalanceStays
<1>12. account' = AccountsAfter(S, rows, accts)
  BY <1>1 DEF PostAndEnd, Enter
<1>13. ASSUME NEW a \in Account, account'[a] = "closed"
       PROVE  \/ cache'[a].balance <= 0
              \/ \E t \in Tx : tx'[t].status = "posted" /\ OnDeath(tx'[t]) /\ tx'[t].account = a
  <2>1. CASE accts[a] = "closed"
    <3>1. cache'[a] = cache[a]
      BY <1>3, <1>9, <2>1, ClosedRests
    <3>2. account[a] = "closed" /\ \A t \in Tx : tx[t].status = "posted" => rows[t] = tx[t]
      BY <2>1 DEF Written
    <3> QED
      BY <1>4, <3>1, <3>2, LeftStays DEF ExitInv
  <2>2. CASE accts[a] # "closed"
    <3>1. PICK t \in S : a \in ClosedBy(rows[t], accts)
      BY <1>12, <1>13, <2>2 DEF AccountsAfter
    <3>2. rows[t].kind \in ExitKind
      BY <3>1 DEF ClosedBy, SettlesTogether, ExitKind
    <3>3. S = {t}
      BY <1>1, <3>1, <3>2, ExitPostsAlone
    <3>4. cache'[a].balance <= 0 \/ (OnDeath(rows[t]) /\ rows[t].account = a)
      BY <1>3, <1>10, <3>1, <3>2, <3>3, ExitEmpties
    <3>5. SameExit(tx'[t], rows[t]) /\ tx'[t].status = "posted" /\ t \in Tx
      BY <1>3, <1>5, <1>9, <3>1
    <3>6. (OnDeath(tx'[t]) <=> OnDeath(rows[t])) /\ tx'[t].account = rows[t].account
      BY <3>5, SameCovers DEF SameExit
    <3> QED
      BY <3>4, <3>5, <3>6
  <2> QED
    BY <2>1, <2>2
<1>14. NothingLeftOnClosed'
  BY <1>13, LeftIs
<1>15. \A h \in Holder : holder[h] # "demised" /\ holder'[h] = "demised" => DraftsOf(h, tx') = {}
  BY <1>2, EndDraftless
<1> QED
  BY <1>6, <1>7, <1>8, <1>11, <1>14, <1>15 DEF ExitKept

LEMMA ReversalKeeps ==
    ASSUME ExitInv, NEW rows, NEW accts, Written(rows, accts), NEW ids \in SUBSET Tx,
           PostAll(ids, rows, accts), \A t \in ids : IsRow(rows[t]) /\ rows[t].kind = "reversal"
    PROVE  ExitKept
<1>1. /\ RowsIn(rows) /\ Onward(tx, rows) /\ ExitsStay(tx, rows) /\ Plain(rows) /\ ClosingIn(accts, rows)
      /\ Enter(ids, rows, accts)
  BY DEF Written, PostAll
<1>2. \A a \in Account : account'[a] = accts[a]
  <2>1. account' = AccountsAfter(ids, rows, accts)
    BY DEF PostAll, Enter
  <2>2. \A t \in ids : ClosedBy(rows[t], accts) = {}
    BY DEF ClosedBy, SettlesTogether
  <2> QED
    BY <2>1, <2>2 DEF AccountsAfter
<1>3. \A t \in Tx : IF t \in ids THEN tx'[t] = [rows[t] EXCEPT !.status = "posted"] ELSE tx'[t] = rows[t]
  BY DEF PostAll, RowsAfter
<1>4. ASSUME NEW t \in ids
      PROVE  /\ rows[t] # NoRow /\ SameExit(tx'[t], rows[t]) /\ tx'[t].carried = rows[t].carried
             /\ tx'[t].amount = rows[t].amount
  <2>1. IsRow(rows[t]) /\ t \in Tx
    OBVIOUS
  <2>2. tx'[t] = [rows[t] EXCEPT !.status = "posted"]
    BY <1>3, <2>1
  <2> QED
    BY <2>1, <2>2, StatusAlone, RowIsThere
<1>5. \A t \in ids : rows[t].status \in {"submitted", "approved"} /\ rows[t].kind \notin ExitKind
  BY <1>1 DEF Enter, CanPost, ExitKind
<1>6. ClosingIn(account', tx')
  BY <1>1, <1>2, <1>3, <1>5 DEF ClosingIn
<1>7. Plain(tx')
  BY <1>1, <1>3, <1>4 DEF Plain, SameExit
<1>8. ExitsStay(tx, tx')
  <2>1. ExitsStay(rows, tx')
    BY <1>3, <1>4 DEF ExitsStay, SameExit
  <2> QED
    BY <1>1, <2>1, ExitsStayOn
<1>9. \A t \in ids : ~rows[t].carried /\ (rows[t].kind \notin ExitKind => rows[t].amount \in Int)
  BY <1>1, <1>4 DEF Plain
<1>10. \A a \in Account : cache'[a].balance \in Int
  BY <1>1, <1>9, BalanceStays DEF ExitInv
<1>11. ASSUME NEW a \in Account, account'[a] = "closed"
       PROVE  \/ cache'[a].balance <= 0
              \/ \E t \in Tx : tx'[t].status = "posted" /\ OnDeath(tx'[t]) /\ tx'[t].account = a
  <2>1. accts[a] = "closed"
    BY <1>2, <1>11
  <2>2. account[a] = "closed" /\ \A t \in Tx : tx[t].status = "posted" => rows[t] = tx[t]
    BY <2>1 DEF Written
  <2>3. cache'[a] = cache[a]
    BY <1>1, <1>9, <2>1, ClosedRests
  <2>4. \A t \in Tx : tx[t].status = "posted" => tx'[t] = tx[t]
    BY <1>3, <1>5, <2>2
  <2> QED
    BY <2>2, <2>3, <2>4, LeftStays DEF ExitInv
<1>12. NothingLeftOnClosed'
  BY <1>11, LeftIs
<1>13. \A h \in Holder : holder'[h] = holder[h]
  BY DEF PostAll, HoldersAfter, Ends
<1> QED
  BY <1>6, <1>7, <1>8, <1>10, <1>12, <1>13 DEF ExitKept

LEMMA EffectKeeps ==
    ASSUME ExitInv, NEW rows, NEW accts, Written(rows, accts), Ended(rows, accts)
    PROVE  ExitKept
BY WrittenKeeps, EndKeeps, ReversalKeeps DEF Ended

----------------------------------------------------------------------------
(* What each handler's transaction writes *)

LEMMA SubmitEnds ==
    ASSUME NEW o, NEW head \in Tx, NEW rows, NEW accts, NEW c, NEW s, NEW seen,
           Submit(o, head, rows, accts, c, s, seen)
    PROVE  Ended(rows, accts)
<1>1. CASE c # NoChain
  BY <1>1 DEF Submit, Ended
<1>2. CASE c = NoChain
  <2>1. \E steps : PostAndEnd(head, rows, accts, steps)
    BY <1>2 DEF Submit
  <2> QED
    BY <2>1 DEF Ended
<1> QED
  BY <1>1, <1>2

\* Rows written with the account statuses as they were: no exit that waits
\* stops waiting.
LEMMA PlainlyWritten ==
    ASSUME ReviewInv, ExitInv, NEW rows, RowsIn(rows), Onward(tx, rows),
           \A t \in Tx : rows[t] # tx[t] =>
               /\ tx[t].status # "posted"
               /\ rows[t] # NoRow => ~rows[t].carried /\ (rows[t].kind \notin ExitKind => rows[t].amount \in Int)
               /\ tx[t] # NoRow /\ tx[t].kind \in ExitKind =>
                      SameExit(rows[t], tx[t]) /\ (tx[t].status \in Waiting => rows[t].status \in Waiting)
    PROVE  Written(rows, account)
<1>1. ExitsStay(tx, rows)
  BY DEF ExitsStay, SameExit
<1>2. Plain(rows)
  BY DEF Plain, ExitInv
<1>3. \A t \in Tx : tx[t].status \in Waiting /\ tx[t].kind \in ExitKind => rows[t].status \in Waiting
  BY DEF Waiting, NoRow
<1>4. ClosingIn(account, rows)
  BY <1>1, <1>3, ClosingOn DEF ExitInv
<1> QED
  BY <1>1, <1>2, <1>4 DEF Written

LEMMA RecordedEnds ==
    ASSUME ReviewInv, ExitInv, NEW q \in Request, NEW kind, Recorded(q, kind)
    PROVE  \E rows, accts : Written(rows, accts) /\ Ended(rows, accts)
<1>1. PICK form, head : form = desk[q].form /\ head = Lead(form)
  OBVIOUS
<1>2. form \in Forms
  BY <1>1 DEF ReviewInv, RequestIn, Recorded
<1>3. /\ DOMAIN form \in SUBSET Tx /\ head \in DOMAIN form
      /\ \A t \in DOMAIN form : IsRow(form[t])
  BY <1>1, <1>2, FormRows
<1>4. PICK rows : rows = [t \in Tx |-> IF t \in DOMAIN form THEN form[t] ELSE tx[t]]
  OBVIOUS
<1>5. /\ \A t \in DOMAIN form : tx[t] = NoRow
      /\ Submit(desk[q].by, head, rows, account, desk[q].chain, desk[q].step,
                Records(desk[q].by, "captured", {head}))
  BY <1>1, <1>4 DEF Recorded
<1>6. \A t \in DOMAIN form : form[t].amount \in Int /\ ~form[t].carried
  BY <1>2, FormsAssumption DEF Row
<1>7. RowsIn(tx)
  BY DEF ReviewInv, Holds
<1>8. RowsIn(rows)
  BY <1>3, <1>4, <1>7 DEF RowsIn
<1>9. Onward(tx, rows)
  BY <1>3, <1>4, <1>5 DEF Onward, SameRow
<1>10. \A t \in Tx : rows[t] # tx[t] => tx[t] = NoRow /\ rows[t].amount \in Int /\ ~rows[t].carried
  BY <1>4, <1>5, <1>6
<1>11. Written(rows, account)
  BY <1>8, <1>9, <1>10, PlainlyWritten DEF NoRow
<1> QED
  BY <1>3, <1>5, <1>11, SubmitEnds

\* One row written, with a row of its own kind or where none was.
LEMMA OneWritten ==
    ASSUME ReviewInv, ExitInv, NEW t \in Tx, NEW r, IsRow(r), ~r.carried, tx[t].status # "posted",
           r.kind \notin ExitKind => r.amount \in Int,
           tx[t] # NoRow => SameRow(r, tx[t]),
           tx[t] # NoRow /\ tx[t].kind \in ExitKind =>
               SameExit(r, tx[t]) /\ (tx[t].status \in Waiting => r.status \in Waiting),
           NEW rows, rows = [u \in Tx |-> IF u = t THEN r ELSE tx[u]]
    PROVE  Written(rows, account)
<1>1. RowsIn(tx) /\ r # NoRow
  BY RowIsThere DEF ReviewInv, Holds
<1>2. RowsIn(rows) /\ Onward(tx, rows)
  BY <1>1 DEF RowsIn, Onward, SameRow
<1>3. \A u \in Tx : rows[u] # tx[u] => u = t /\ rows[u] = r
  OBVIOUS
<1> QED
  BY <1>2, <1>3, PlainlyWritten

LEMMA DraftEnds ==
    ASSUME ReviewInv, ExitInv, NEW q \in Request, CommitRequest(q)
    PROVE  \E rows, accts : Written(rows, accts) /\ Ended(rows, accts)
<1>1. PICK form, t : form = desk[q].form /\ t = Lead(form)
  OBVIOUS
<1>2. form \in Drafted
  BY <1>1 DEF ReviewInv, RequestIn, CommitRequest
<1>3. t \in Tx /\ t \in DOMAIN form /\ IsRow(form[t]) /\ form[t].amount \in Int /\ ~form[t].carried
  BY <1>1, <1>2, FormRows, FormsAssumption DEF Row
<1>4. PICK r : r = [form[t] EXCEPT !.status = "draft"]
  OBVIOUS
<1>5. IsRow(r) /\ ~r.carried /\ r.amount \in Int
  BY <1>3, <1>4 DEF IsRow, Status
<1>6. tx[t] = NoRow /\ tx' = [tx EXCEPT ![t] = r] /\ UNCHANGED <<account, holder, cache>>
  BY <1>1, <1>4 DEF CommitRequest
<1>7. tx' = [u \in Tx |-> IF u = t THEN r ELSE tx[u]] /\ tx[t].status # "posted"
  BY <1>6 DEF ReviewInv, Holds, RowsIn, NoRow
<1>8. PICK rows : rows = [u \in Tx |-> IF u = t THEN r ELSE tx[u]]
  OBVIOUS
<1>9. Written(rows, account)
  BY <1>3, <1>5, <1>6, <1>7, <1>8, OneWritten
<1> QED
  BY <1>6, <1>7, <1>8, <1>9 DEF Ended

LEMMA UpdateEnds ==
    ASSUME ReviewInv, ExitInv, NEW q \in Request, CommitUpdateRequest(q) \/ CommitCancelRequest(q)
    PROVE  \E rows, accts : Written(rows, accts) /\ Ended(rows, accts)
<1>1. PICK d : d = desk[q]
  OBVIOUS
<1>2. d.tx \in Tx /\ tx[d.tx] # NoRow /\ tx[d.tx].kind = "deposit" /\ tx[d.tx].status # "posted"
  BY <1>1 DEF ReviewInv, RequestIn, CommitUpdateRequest, CommitCancelRequest, OnOne
<1>3. RowsIn(tx) /\ IsRow(tx[d.tx]) /\ ~tx[d.tx].carried /\ tx[d.tx].amount \in Int
  BY <1>2 DEF ReviewInv, Holds, RowsIn, ExitInv, Plain, ExitKind
<1>4. UNCHANGED <<account, holder, cache>>
  BY DEF CommitUpdateRequest, CommitCancelRequest
<1>5. CommitUpdateRequest(q) => d.amount \in Int
  BY <1>1 DEF ExitInv, DeskIn, CommitUpdateRequest
<1>6. PICK r : r = IF CommitUpdateRequest(q) THEN [tx[d.tx] EXCEPT !.amount = d.amount]
                   ELSE [tx[d.tx] EXCEPT !.status = "cancelled"]
  OBVIOUS
<1>7. IsRow(r) /\ SameRow(r, tx[d.tx]) /\ r.amount \in Int /\ ~r.carried /\ r.kind = "deposit"
  BY <1>2, <1>3, <1>5, <1>6 DEF IsRow, SameRow, Status
<1>8. tx' = [u \in Tx |-> IF u = d.tx THEN r ELSE tx[u]]
  BY <1>1, <1>3, <1>6 DEF CommitUpdateRequest, CommitCancelRequest, RowsIn
<1>9. PICK rows : rows = [u \in Tx |-> IF u = d.tx THEN r ELSE tx[u]]
  OBVIOUS
<1>10. Written(rows, account)
  BY <1>2, <1>7, <1>9, OneWritten DEF ExitKind
<1> QED
  BY <1>4, <1>8, <1>9, <1>10 DEF Ended

LEMMA SendEnds ==
    ASSUME ReviewInv, ExitInv, NEW q \in Request, CommitSubmitRequest(q)
    PROVE  \E rows, accts : Written(rows, accts) /\ Ended(rows, accts)
<1>1. PICK d : d = desk[q]
  OBVIOUS
<1>2. d.tx \in Tx /\ tx[d.tx] # NoRow /\ tx[d.tx].kind = "deposit" /\ tx[d.tx].status # "posted"
  BY <1>1 DEF ReviewInv, RequestIn, CommitSubmitRequest, OnOne
<1>3. RowsIn(tx) /\ IsRow(tx[d.tx]) /\ ~tx[d.tx].carried /\ tx[d.tx].amount \in Int
  BY <1>2 DEF ReviewInv, Holds, RowsIn, ExitInv, Plain, ExitKind
<1>4. PICK r : r = [tx[d.tx] EXCEPT !.status = "submitted"]
  OBVIOUS
<1>5. IsRow(r) /\ SameRow(r, tx[d.tx]) /\ r.amount \in Int /\ ~r.carried /\ r.kind = "deposit"
  BY <1>2, <1>3, <1>4 DEF IsRow, SameRow, Status
<1>6. PICK rows : rows = [u \in Tx |-> IF u = d.tx THEN r ELSE tx[u]]
  OBVIOUS
<1>7. rows = [tx EXCEPT ![d.tx].status = "submitted"]
  BY <1>3, <1>4, <1>6 DEF RowsIn
<1>8. Submit(d.by, d.tx, rows, account, d.chain, d.step, {})
  BY <1>1, <1>7 DEF CommitSubmitRequest
<1>9. Written(rows, account)
  BY <1>2, <1>5, <1>6, OneWritten DEF ExitKind
<1> QED
  BY <1>2, <1>8, <1>9, SubmitEnds

LEMMA ResubmittedEnds ==
    ASSUME ReviewInv, ExitInv, NEW q \in Request, NEW kind, kind \notin ExitKind, Resubmitted(q, kind)
    PROVE  \E rows, accts : Written(rows, accts) /\ Ended(rows, accts)
<1>1. PICK d, head : d = desk[q] /\ head = d.tx
  OBVIOUS
<1>2. head \in Tx /\ tx[head] # NoRow /\ tx[head].kind \notin ExitKind /\ d.amount \in Int
  BY <1>1 DEF ReviewInv, RequestIn, Resubmitted, OnOne, ExitInv, DeskIn
<1>3. RowsIn(tx) /\ Plain(tx)
  BY DEF ReviewInv, Holds, ExitInv
<1>4. PICK edited : edited = [u \in Tx |->
                                 IF u = head THEN [tx[u] EXCEPT !.amount = d.amount, !.account = d.account]
                                 ELSE IF u \in EditedWith(head) THEN [tx[u] EXCEPT !.amount = d.amount]
                                 ELSE tx[u]]
  OBVIOUS
<1>5. /\ \A u \in EditedWith(head) : tx[u].status # "posted"
      /\ SubmitAgain(d, edited, account)
  BY <1>1, <1>4 DEF Resubmitted
<1>6. PICK status \in {"submitted", "under_review"} :
        \E sent :
           /\ sent = [edited EXCEPT ![head].status = status]
           /\ \/ tx' = sent /\ account' = account /\ UNCHANGED <<holder, cache>>
              \/ Submit(d.by, head, sent, account, d.chain, d.step, {})
  BY <1>1, <1>5 DEF SubmitAgain
<1>7. PICK sent :
           /\ sent = [edited EXCEPT ![head].status = status]
           /\ \/ tx' = sent /\ account' = account /\ UNCHANGED <<holder, cache>>
              \/ Submit(d.by, head, sent, account, d.chain, d.step, {})
  BY <1>6
<1>8. PICK r : r = [tx[head] EXCEPT !.amount = d.amount, !.account = d.account, !.status = status]
  OBVIOUS
<1>9. IsRow(r) /\ SameRow(r, tx[head]) /\ r.amount \in Int /\ ~r.carried
  <2>1. IsRow(tx[head]) /\ status \in Status /\ ~tx[head].carried
    BY <1>2, <1>3 DEF RowsIn, Status, Plain
  <2>2. PICK row : row = tx[head]
    OBVIOUS
  <2>3. r = [row EXCEPT !.amount = d.amount, !.account = d.account, !.status = status]
    BY <1>8, <2>2
  <2>4. r = [kind |-> row.kind, status |-> status, account |-> d.account, amount |-> d.amount,
             leg |-> row.leg, transfer |-> row.transfer, reverses |-> row.reverses,
             carried |-> row.carried, claimant |-> row.claimant, benefit |-> row.benefit]
    BY <2>1, <2>2, <2>3 DEF IsRow
  <2> QED
    BY <1>2, <2>1, <2>2, <2>4 DEF IsRow, SameRow
<1>10. sent = [u \in Tx |-> IF u = head THEN r
                            ELSE IF u \in EditedWith(head) THEN [tx[u] EXCEPT !.amount = d.amount] ELSE tx[u]]
  BY <1>2, <1>4, <1>7, <1>8
<1>11. ASSUME NEW u \in EditedWith(head), u # head
       PROVE  /\ u \in Tx /\ IsRow(sent[u]) /\ SameRow(sent[u], tx[u]) /\ tx[u] # NoRow
              /\ sent[u].amount \in Int /\ ~sent[u].carried /\ tx[u].kind \notin ExitKind
  <2>1. u \in Tx /\ tx[u] # NoRow /\ tx[u].leg = "credit"
    BY <1>11 DEF EditedWith, OtherLegs
  <2>2. PICK row : row = tx[u] /\ IsRow(row) /\ ~row.carried
    BY <1>3, <2>1 DEF RowsIn, Plain
  <2>3. sent[u] = [row EXCEPT !.amount = d.amount]
    BY <1>10, <1>11, <2>1, <2>2
  <2> QED
    BY <1>2, <2>1, <2>2, <2>3 DEF IsRow, SameRow, ExitKind
<1>12. ASSUME NEW t \in Tx, sent[t] # tx[t]
       PROVE  /\ tx[t].status # "posted" /\ tx[t] # NoRow /\ tx[t].kind \notin ExitKind
              /\ IsRow(sent[t]) /\ SameRow(sent[t], tx[t]) /\ ~sent[t].carried /\ sent[t].amount \in Int
  <2>1. CASE t = head
    <3>1. sent[t] = r /\ tx[t].status # "posted"
      BY <1>2, <1>5, <1>10, <2>1 DEF EditedWith
    <3> QED
      BY <1>2, <1>9, <2>1, <3>1
  <2>2. CASE t # head
    <3>1. t \in EditedWith(head)
      BY <1>10, <1>12, <2>2
    <3> QED
      BY <1>5, <1>11, <2>2, <3>1
  <2> QED
    BY <2>1, <2>2
<1>13. RowsIn(sent)
  BY <1>3, <1>10, <1>12 DEF RowsIn
<1>14. Onward(tx, sent)
  BY <1>12, RowIsThere DEF Onward, SameRow
<1>15. Written(sent, account)
  BY <1>12, <1>13, <1>14, PlainlyWritten
<1>16. Ended(sent, account)
  <2>1. CASE tx' = sent /\ account' = account /\ UNCHANGED <<holder, cache>>
    BY <2>1 DEF Ended
  <2>2. CASE Submit(d.by, head, sent, account, d.chain, d.step, {})
    BY <1>2, <2>2, SubmitEnds
  <2> QED
    BY <1>7, <2>1, <2>2
<1> QED
  BY <1>15, <1>16

\* An exit refused or withdrawn: what was closing for it is open again.
LEMMA ReopensWritten ==
    ASSUME ReviewInv, ExitInv, NEW t \in Tx, tx[t] # NoRow, tx[t].kind \in ExitKind, tx[t].status # "posted",
           NEW status \in Status, NEW rows,
           rows = [u \in Tx |-> IF u = t THEN [tx[t] EXCEPT !.status = status] ELSE tx[u]],
           NEW accts, accts = Reopened(tx[t])
    PROVE  Written(rows, accts)
<1>1. RowsIn(tx) /\ IsRow(tx[t]) /\ Plain(tx) /\ ClosingIn(account, tx)
  BY DEF ReviewInv, Holds, RowsIn, ExitInv
<1>2. PICK r : r = [tx[t] EXCEPT !.status = status]
  OBVIOUS
<1>3. IsRow(r) /\ SameRow(r, tx[t]) /\ SameExit(r, tx[t]) /\ r.carried = tx[t].carried /\ r.kind = tx[t].kind
  BY <1>1, <1>2 DEF IsRow, SameRow, SameExit
<1>4. \A u \in Tx : rows[u] = IF u = t THEN r ELSE tx[u]
  BY <1>2
<1>5. RowsIn(rows) /\ Onward(tx, rows)
  BY <1>1, <1>3, <1>4, RowIsThere DEF RowsIn, Onward, SameRow
<1>6. ExitsStay(tx, rows)
  BY <1>3, <1>4 DEF ExitsStay, SameExit
<1>7. Plain(rows)
  BY <1>1, <1>3, <1>4 DEF Plain
<1>8. \A a \in Account : accts[a] = IF a \in Covers(tx[t]) /\ account[a] = "closing" THEN "active" ELSE account[a]
  BY DEF Reopened, Leaving
<1>9. ClosingIn(accts, rows)
  <2> SUFFICES ASSUME NEW a \in Account, accts[a] = "closing"
               PROVE  \E u \in Tx : rows[u].status \in Waiting /\ rows[u].kind \in ExitKind /\ a \in Covers(rows[u])
    BY DEF ClosingIn
  <2>1. account[a] = "closing" /\ a \notin Covers(tx[t])
    BY <1>8
  <2>2. PICK u \in Tx : tx[u].status \in Waiting /\ tx[u].kind \in ExitKind /\ a \in Covers(tx[u])
    BY <1>1, <2>1 DEF ClosingIn
  <2>3. rows[u] = tx[u]
    BY <1>4, <2>1, <2>2
  <2> QED
    BY <2>2, <2>3
<1>10. \A a \in Account : accts[a] = "closed" <=> account[a] = "closed"
  BY <1>8
<1>11. \A u \in Tx : tx[u].status = "posted" => rows[u] = tx[u]
  BY <1>4
<1> QED
  BY <1>5, <1>6, <1>7, <1>9, <1>10, <1>11 DEF Written

LEMMA WithdrawnEnds ==
    ASSUME ReviewInv, ExitInv, NEW q \in Request, NEW kind, Withdrawn(q, kind)
    PROVE  \E rows, accts : Written(rows, accts) /\ Ended(rows, accts)
<1>1. PICK t : t = desk[q].tx
  OBVIOUS
<1>2. t \in Tx /\ tx[t] # NoRow /\ tx[t].kind \in ExitKind /\ tx[t].status # "posted"
  BY <1>1 DEF ReviewInv, RequestIn, OnOne, Withdrawn
<1>3. PICK rows, accts : /\ rows = [u \in Tx |-> IF u = t THEN [tx[t] EXCEPT !.status = "cancelled"] ELSE tx[u]]
                         /\ accts = Reopened(tx[t])
  OBVIOUS
<1>4. Written(rows, accts)
  BY <1>2, <1>3, ReopensWritten DEF Status
<1>5. RowsIn(tx)
  BY DEF ReviewInv, Holds
<1>6. tx' = rows /\ account' = accts /\ UNCHANGED <<holder, cache>>
  BY <1>1, <1>3, <1>5 DEF Withdrawn, RowsIn
<1> QED
  BY <1>4, <1>6 DEF Ended

LEMMA StartedEnds ==
    ASSUME ReviewInv, ExitInv, NEW q \in Request, NEW kind, Started(q, kind)
    PROVE  \E rows, accts : Written(rows, accts) /\ Ended(rows, accts)
<1>1. PICK d : d = desk[q]
  OBVIOUS
<1>2. d.tx \in Tx /\ IsRow(d.row) /\ d.row.kind \in ExitKind /\ ~d.row.carried
  BY <1>1 DEF ReviewInv, RequestIn, Started, ExitInv, DeskIn
<1>3. tx[d.tx] = NoRow /\ tx' = [tx EXCEPT ![d.tx] = d.row] /\ UNCHANGED <<account, holder, cache>>
  BY <1>1 DEF Started
<1>4. PICK rows : rows = [u \in Tx |-> IF u = d.tx THEN d.row ELSE tx[u]]
  OBVIOUS
<1>5. tx' = rows /\ tx[d.tx].status # "posted"
  BY <1>3, <1>4 DEF ReviewInv, Holds, RowsIn, NoRow
<1>6. Written(rows, account)
  BY <1>2, <1>3, <1>4, <1>5, OneWritten
<1> QED
  BY <1>3, <1>5, <1>6 DEF Ended

LEMMA ReviewedEnds ==
    ASSUME ReviewInv, ExitInv, NEW q \in Request, CommitReview(q)
    PROVE  \E rows, accts : Written(rows, accts) /\ Ended(rows, accts)
<1>1. PICK d, head : d = desk[q] /\ head = d.tx
  OBVIOUS
<1>2. head \in Tx /\ tx[head] # NoRow /\ Decision(d)
  BY <1>1 DEF ReviewInv, RequestIn, CommitReview, OnOne
<1>3. RowsIn(tx) /\ Plain(tx)
  BY DEF ReviewInv, Holds, ExitInv
<1>4. PICK fall : fall = IF d.to = "rejected" THEN {u \in OtherLegs(head) : tx[u].status # "posted"} ELSE {}
  OBVIOUS
<1>5. /\ tx[head].status # "posted"
      /\ tx' = [u \in Tx |-> IF u = head THEN [tx[u] EXCEPT !.status = d.to]
                             ELSE IF u \in fall THEN [tx[u] EXCEPT !.status = "rejected"]
                             ELSE tx[u]]
      /\ account' = IF d.to = "rejected" /\ tx[head].kind \in ExitKind THEN Reopened(tx[head]) ELSE account
      /\ UNCHANGED <<holder, cache>>
  BY <1>1, <1>4 DEF CommitReview
<1>6. CASE d.to = "rejected" /\ tx[head].kind \in ExitKind
  <2>1. fall = {}
    BY <1>4, <1>6 DEF OtherLegs, ExitKind
  <2>2. PICK rows : rows = [u \in Tx |-> IF u = head THEN [tx[head] EXCEPT !.status = "rejected"] ELSE tx[u]]
    OBVIOUS
  <2>3. tx' = rows
    BY <1>5, <1>6, <2>1, <2>2
  <2>4. Written(rows, account')
    BY <1>2, <1>5, <1>6, <2>2, ReopensWritten DEF Status
  <2> QED
    BY <1>5, <2>3, <2>4 DEF Ended
<1>7. CASE ~(d.to = "rejected" /\ tx[head].kind \in ExitKind)
  <2>1. ASSUME NEW t \in Tx, NEW status \in Status, tx[t] # NoRow, tx'[t] = [tx[t] EXCEPT !.status = status]
        PROVE  /\ IsRow(tx'[t]) /\ SameRow(tx'[t], tx[t]) /\ SameExit(tx'[t], tx[t])
               /\ tx'[t].status = status /\ tx'[t].carried = tx[t].carried /\ tx'[t].amount = tx[t].amount
    <3>1. PICK r : r = tx[t] /\ IsRow(r)
      BY <1>3, <2>1 DEF RowsIn
    <3>2. tx'[t] = [r EXCEPT !.status = status]
      BY <2>1, <3>1
    <3> QED
      BY <3>1, <3>2 DEF IsRow, SameRow, SameExit
  <2>2. ASSUME NEW t \in Tx, tx'[t] # tx[t]
        PROVE  /\ tx[t].status # "posted" /\ tx[t] # NoRow
               /\ IsRow(tx'[t]) /\ SameRow(tx'[t], tx[t]) /\ SameExit(tx'[t], tx[t])
               /\ tx'[t].carried = tx[t].carried /\ tx'[t].amount = tx[t].amount
               /\ tx[t].kind \in ExitKind => tx'[t].status \in Waiting
    <3>1. CASE t = head
      <4>1. tx'[t] = [tx[t] EXCEPT !.status = d.to] /\ d.to \in Status
        BY <1>2, <1>5, <3>1 DEF Decision, Status
      <4>2. tx[t].kind \in ExitKind => d.to \in Waiting
        BY <1>2, <1>7, <3>1 DEF Decision, Waiting
      <4> QED
        BY <1>2, <1>5, <2>1, <3>1, <4>1, <4>2
    <3>2. CASE t # head
      <4>1. t \in fall /\ tx'[t] = [tx[t] EXCEPT !.status = "rejected"]
        BY <1>5, <2>2, <3>2
      <4>2. tx[t] # NoRow /\ tx[t].status # "posted" /\ tx[t].kind \notin ExitKind
        <5>1. t \in OtherLegs(head) /\ tx[t].status # "posted"
          BY <1>4, <4>1
        <5>2. tx[t] # NoRow /\ tx[head].kind = "transfer_leg" /\ tx[t].transfer = tx[head].transfer
          BY <5>1 DEF OtherLegs
        <5>3. IsRow(tx[t]) /\ IsRow(tx[head])
          BY <1>2, <1>3, <5>2 DEF RowsIn
        <5>4. tx[t].kind = "transfer_leg"
          BY <5>2, <5>3, NoTransferAssumption DEF IsRow
        <5> QED
          BY <5>1, <5>2, <5>4 DEF ExitKind
      <4> QED
        BY <2>1, <4>1, <4>2 DEF Status
    <3> QED
      BY <3>1, <3>2
  <2>3. PICK rows : rows = tx'
    OBVIOUS
  <2>4. \A t \in Tx : rows[t] # tx[t] =>
            /\ tx[t].status # "posted" /\ tx[t] # NoRow
            /\ IsRow(rows[t]) /\ SameRow(rows[t], tx[t]) /\ SameExit(rows[t], tx[t])
            /\ rows[t].carried = tx[t].carried /\ rows[t].amount = tx[t].amount
            /\ tx[t].kind \in ExitKind => rows[t].status \in Waiting
    BY <2>2, <2>3
  <2>5. rows = [t \in Tx |-> rows[t]]
    BY <1>5, <2>3
  <2>6. RowsIn(rows)
    BY <1>3, <2>4, <2>5 DEF RowsIn
  <2>7. Onward(tx, rows)
    BY <2>4, RowIsThere DEF Onward, SameRow
  <2>8. \A t \in Tx : rows[t] # tx[t] => ~rows[t].carried /\ (rows[t].kind \notin ExitKind => rows[t].amount \in Int)
    BY <1>3, <2>4 DEF Plain, SameExit
  <2>9. Written(rows, account)
    BY <2>4, <2>6, <2>7, <2>8, PlainlyWritten
  <2> QED
    BY <1>5, <1>7, <2>3, <2>9 DEF Ended
<1> QED
  BY <1>6, <1>7

LEMMA PostedEnds ==
    ASSUME ReviewInv, ExitInv, NEW q \in Request, CommitPost(q)
    PROVE  \E rows, accts : Written(rows, accts) /\ Ended(rows, accts)
<1>1. PICK head : head = desk[q].tx
  OBVIOUS
<1>2. head \in Tx /\ tx[head] # NoRow
  BY <1>1 DEF ReviewInv, RequestIn, CommitPost, OnOne
<1>3. RowsIn(tx) /\ IsRow(tx[head]) /\ Plain(tx)
  BY <1>2 DEF ReviewInv, Holds, RowsIn, ExitInv
<1>4. PICK r : r = [tx[head] EXCEPT !.amount = AmountNow(tx[head])]
  OBVIOUS
<1>5. PICK rows : rows = [u \in Tx |-> IF u = head THEN r ELSE tx[u]]
  OBVIOUS
<1>6. PostAndEnd(head, rows, account, step)
  <2>1. rows = [tx EXCEPT ![head].amount = AmountNow(tx[head])]
    BY <1>3, <1>4, <1>5 DEF RowsIn
  <2> QED
    BY <1>1, <2>1 DEF CommitPost
<1>7. /\ IsRow(r) /\ SameRow(r, tx[head]) /\ SameExit(r, tx[head]) /\ r.carried = tx[head].carried
      /\ r.status = tx[head].status /\ r.kind = tx[head].kind /\ r.amount = AmountNow(tx[head])
  BY <1>3, <1>4 DEF IsRow, SameRow, SameExit
<1>8. tx[head].status # "posted"
  <2>1. rows[head].status \in {"submitted", "approved"}
    BY <1>6 DEF PostAndEnd, Enter, CanPost, PostedWith
  <2> QED
    BY <1>2, <1>5, <1>7, <2>1
<1>9. ~r.carried /\ (r.kind \notin ExitKind => r.amount \in Int)
  <2>1. tx[head].kind \notin ExitKind => AmountNow(tx[head]) = tx[head].amount
    BY DEF AmountNow, SettlesTogether, ExitKind
  <2> QED
    BY <1>2, <1>3, <1>7, <2>1 DEF Plain
<1>10. Written(rows, account)
  BY <1>2, <1>5, <1>7, <1>8, <1>9, OneWritten
<1> QED
  BY <1>2, <1>6, <1>10 DEF Ended

LEMMA ReversedEnds ==
    ASSUME ReviewInv, ExitInv, NEW q \in Request, CommitReverse(q)
    PROVE  \E rows, accts : Written(rows, accts) /\ Ended(rows, accts)
<1>1. PICK targets : targets = desk[q].targets
  OBVIOUS
<1>2. targets \in SUBSET Tx /\ \A t \in targets : tx[t] # NoRow /\ tx[t].kind \notin ExitKind
  BY <1>1 DEF ReviewInv, RequestIn, CommitReverse, ExitInv, DeskIn
<1>3. RowsIn(tx) /\ Plain(tx)
  BY DEF ReviewInv, Holds, ExitInv
<1>4. PICK id \in [desk[q].targets -> {u \in Spare : tx[u] = NoRow}] :
           LET names == {id[t] : t \in desk[q].targets}
           IN  /\ Cardinality(names) = Cardinality(desk[q].targets)
               /\ PostAll(names,
                          [u \in Tx |-> IF u \in names
                                        THEN ReversalOf(CHOOSE t \in desk[q].targets : id[t] = u)
                                        ELSE tx[u]],
                          account)
               /\ audit' = audit \cup Records(desk[q].by, "reversed", desk[q].targets)
                                \cup Records(desk[q].by, "posted", names)
  BY Zenon DEF CommitReverse
<1> DEFINE ids == {id[t] : t \in desk[q].targets}
           rows == [u \in Tx |-> IF u \in ids
                                 THEN ReversalOf(CHOOSE t \in desk[q].targets : id[t] = u)
                                 ELSE tx[u]]
<1>5. PostAll(ids, rows, account)
  BY <1>4, Zenon
<1>20. ids = {id[t] : t \in desk[q].targets}
  OBVIOUS
<1>21. rows = [u \in Tx |-> IF u \in ids
                            THEN ReversalOf(CHOOSE t \in desk[q].targets : id[t] = u)
                            ELSE tx[u]]
  OBVIOUS
<1> HIDE DEF ids, rows
<1>7. ids \in SUBSET Tx /\ \A u \in ids : tx[u] = NoRow
  BY <1>4, <1>20, SpareAssumption
<1>8. ASSUME NEW u \in ids
      PROVE  IsRow(rows[u]) /\ rows[u].kind = "reversal" /\ ~rows[u].carried /\ rows[u].amount \in Int
  <2>1. PICK t : t = CHOOSE x \in targets : id[x] = u
    OBVIOUS
  <2>2. t \in targets
    BY <1>1, <1>8, <1>20, <2>1
  <2>3. rows[u] = [tx[t] EXCEPT !.kind = "reversal", !.status = "submitted", !.leg = "none",
                              !.transfer = NoTransfer, !.reverses = t, !.carried = FALSE]
    BY <1>1, <1>7, <1>8, <1>21, <2>1 DEF ReversalOf
  <2>4. PICK row : row = tx[t] /\ IsRow(row) /\ row.amount \in Int
    BY <1>2, <1>3, <2>2 DEF RowsIn, Plain
  <2>5. rows[u] = [kind |-> "reversal", status |-> "submitted", account |-> row.account, amount |-> row.amount,
                   leg |-> "none", transfer |-> NoTransfer, reverses |-> t,
                   carried |-> FALSE, claimant |-> row.claimant, benefit |-> row.benefit]
    BY <2>3, <2>4 DEF IsRow
  <2> QED
    BY <1>2, <2>2, <2>4, <2>5, NoTxAssumption DEF IsRow, Status
<1>9. /\ rows = [u \in Tx |-> rows[u]] /\ \A u \in Tx \ ids : rows[u] = tx[u]
  BY <1>21
<1>11. RowsIn(rows)
  BY <1>3, <1>8, <1>9 DEF RowsIn
<1>12. Onward(tx, rows)
  BY <1>7, <1>9 DEF Onward, SameRow
<1>13. \A t \in Tx : rows[t] # tx[t] => tx[t] = NoRow /\ ~rows[t].carried /\ rows[t].amount \in Int
  BY <1>7, <1>8, <1>9
<1>14. Written(rows, account)
  BY <1>11, <1>12, <1>13, PlainlyWritten DEF NoRow
<1> QED
  BY <1>5, <1>7, <1>8, <1>14 DEF Ended

\* An exit sent off: what it will settle is closing for it.
LEMMA SentWritten ==
    ASSUME ReviewInv, ExitInv, NEW t \in Tx, tx[t] # NoRow, tx[t].kind \in ExitKind, tx[t].status # "posted",
           NEW r, IsRow(r), SameRow(r, tx[t]), SameExit(r, tx[t]), r.carried = tx[t].carried,
           r.status \in {"submitted", "under_review"},
           NEW rows, rows = [u \in Tx |-> IF u = t THEN r ELSE tx[u]],
           NEW settled, settled \subseteq Covers(tx[t]),
           NEW accts, accts = [a \in Account |-> IF a \in settled /\ account[a] = "active"
                                                 THEN "closing" ELSE account[a]]
    PROVE  Written(rows, accts)
<1>1. ~r.carried /\ r.kind \in ExitKind
  BY DEF ExitInv, Plain, SameRow
<1>2. Written(rows, account)
  <2>1. r.kind \notin ExitKind => r.amount \in Int
    BY <1>1
  <2>2. tx[t].status \in Waiting => r.status \in Waiting
    BY DEF Waiting
  <2> QED
    BY <1>1, <2>1, <2>2, OneWritten
<1>3. ClosingIn(accts, rows)
  <2> SUFFICES ASSUME NEW a \in Account, accts[a] = "closing"
               PROVE  \E u \in Tx : rows[u].status \in Waiting /\ rows[u].kind \in ExitKind /\ a \in Covers(rows[u])
    BY DEF ClosingIn
  <2>1. CASE account[a] = "closing"
    BY <1>2, <2>1 DEF Written, ClosingIn
  <2>2. CASE account[a] # "closing"
    <3>1. a \in Covers(tx[t])
      BY <2>2
    <3>2. rows[t] = r /\ Covers(r) = Covers(tx[t]) /\ r.status \in Waiting
      BY SameCovers DEF Waiting
    <3> QED
      BY <1>1, <3>1, <3>2
  <2> QED
    BY <2>1, <2>2
<1>4. \A a \in Account : accts[a] = "closed" <=> account[a] = "closed"
  OBVIOUS
<1> QED
  BY <1>2, <1>3, <1>4 DEF Written

LEMMA SentEnds ==
    ASSUME ReviewInv, ExitInv, NEW q \in Request, NEW kind, Sent(q, kind)
    PROVE  \E rows, accts : Written(rows, accts) /\ Ended(rows, accts)
<1>1. PICK d : d = desk[q]
  OBVIOUS
<1>2. /\ d.tx \in Tx /\ tx[d.tx] # NoRow /\ IsRow(tx[d.tx])
      /\ tx[d.tx].kind \in ExitKind /\ tx[d.tx].status # "posted"
  BY <1>1, SentOff
<1>3. PICK accts, rows :
         /\ accts = [a \in Account |-> IF a \in d.settles /\ account[a] = "active"
                                       THEN "closing" ELSE account[a]]
         /\ \/ /\ \E status \in {"submitted", "under_review"} :
                       rows = [u \in Tx |-> IF u = d.tx THEN SentRow(d, status) ELSE tx[u]]
               /\ tx' = rows /\ account' = accts
               /\ UNCHANGED <<holder, entry, cache, chain, transfer, audit>>
            \/ /\ rows = [u \in Tx |-> IF u = d.tx THEN SentRow(d, "submitted") ELSE tx[u]]
               /\ Submit(d.by, d.tx, rows, accts, d.chain, d.step, {})
  BY <1>1, SentOff
<1>4. PICK status \in {"submitted", "under_review"} :
          rows = [u \in Tx |-> IF u = d.tx THEN SentRow(d, status) ELSE tx[u]]
  BY <1>3
<1>5. PICK r : r = SentRow(d, status)
  OBVIOUS
<1>6. status \in Status
  BY DEF Status
<1>7. IsRow(r) /\ SameRow(r, tx[d.tx]) /\ SameExit(r, tx[d.tx]) /\ r.status = status
  BY <1>2, <1>5, <1>6, SentRowIs DEF SameExit, SameRow
<1>8. r.carried = tx[d.tx].carried
  BY <1>2, <1>5 DEF SentRow, IsRow
<1>9. d.settles \subseteq Covers(tx[d.tx])
  BY <1>1 DEF ExitInv, DeskIn, Sent
<1>10. rows = [u \in Tx |-> IF u = d.tx THEN r ELSE tx[u]]
  BY <1>4, <1>5
<1>11. accts = [a \in Account |-> IF a \in d.settles /\ account[a] = "active" THEN "closing" ELSE account[a]]
  BY <1>3
<1>12. Written(rows, accts)
  BY <1>2, <1>7, <1>8, <1>9, <1>10, <1>11, SentWritten
<1>13. Ended(rows, accts)
  <2>1. CASE tx' = rows /\ account' = accts /\ UNCHANGED <<holder, entry, cache, chain, transfer, audit>>
    BY <2>1 DEF Ended
  <2>2. CASE Submit(d.by, d.tx, rows, accts, d.chain, d.step, {})
    BY <1>2, <2>2, SubmitEnds
  <2> QED
    BY <1>3, <2>1, <2>2
<1> QED
  BY <1>12, <1>13

LEMMA CommitsEnd ==
    ASSUME ReviewInv, ExitInv, NEW q \in Request, Commits(q)
    PROVE  \E rows, accts : Written(rows, accts) /\ Ended(rows, accts)
<1>1. CASE CommitDeposit(q) \/ CommitWithdrawal(q) \/ CommitTransfer(q)
  BY <1>1, RecordedEnds DEF CommitDeposit, CommitWithdrawal, CommitTransfer
<1>2. CASE CommitResubmitDeposit(q) \/ CommitResubmitWithdrawal(q) \/ CommitResubmitTransfer(q)
  BY <1>2, ResubmittedEnds DEF CommitResubmitDeposit, CommitResubmitWithdrawal, CommitResubmitTransfer, ExitKind
<1>3. CASE CommitRequest(q) \/ CommitUpdateRequest(q) \/ CommitSubmitRequest(q) \/ CommitCancelRequest(q)
  BY <1>3, DraftEnds, UpdateEnds, SendEnds
<1>4. CASE CommitReview(q) \/ CommitPost(q) \/ CommitReverse(q)
  BY <1>4, ReviewedEnds, PostedEnds, ReversedEnds
<1> QED
  BY <1>1, <1>2, <1>3, <1>4 DEF Commits

LEMMA ExitCommitsEnd ==
    ASSUME ReviewInv, ExitInv, NEW q \in Request, ExitCommits(q)
    PROVE  \E rows, accts : Written(rows, accts) /\ Ended(rows, accts)
<1>1. ASSUME NEW kind, Started(q, kind) \/ Withdrawn(q, kind) \/ Sent(q, kind)
      PROVE  \E rows, accts : Written(rows, accts) /\ Ended(rows, accts)
  BY <1>1, StartedEnds, WithdrawnEnds, SentEnds
<1> QED
  BY <1>1 DEF ExitCommits, CommitStartClosure, CommitStartResignation, CommitStartDemise,
              CommitSubmitClosure, CommitSubmitResignation, CommitSubmitDemise,
              CommitCancelClosure, CommitCancelResignation, CommitCancelDemise

----------------------------------------------------------------------------
(* The invariant of the exits *)

\* What a request has read of an exit stays so.
LEMMA DeskStays ==
    ASSUME NEW d, RequestIn(d, tx, audit), DeskIn(d, tx), Onward(tx, tx'), ExitsStay(tx, tx')
    PROVE  DeskIn(d, tx')
<1>1. ASSUME d.does = "submit"
      PROVE  d.settles \subseteq Covers(tx'[d.tx])
  <2>1. d.tx \in Tx /\ tx[d.tx] # NoRow /\ tx[d.tx].kind \in ExitKind
    BY <1>1 DEF RequestIn, OnOne
  <2>2. SameExit(tx'[d.tx], tx[d.tx])
    BY <2>1 DEF ExitsStay
  <2>3. Covers(tx'[d.tx]) = Covers(tx[d.tx])
    BY <2>2, SameCovers
  <2> QED
    BY <1>1, <2>3 DEF DeskIn
<1>2. d.does = "reverse" => \A t \in d.targets : tx'[t].kind \notin ExitKind
  BY DEF RequestIn, DeskIn, Onward, SameRow
<1> QED
  BY <1>1, <1>2 DEF DeskIn

LEMMA ExitInvStarts == Init => ExitInv
<1> SUFFICES ASSUME Init PROVE ExitInv
  OBVIOUS
<1>1. /\ tx = [t \in Tx |-> NoRow] /\ account = [a \in Account |-> "active"]
      /\ cache = [a \in Account |-> [balance |-> 0, entries |-> 0]]
      /\ desk = [q \in Request |-> Idle]
  BY DEF Init, EmptyTables
<1>2. ClosingIn(account, tx) /\ Plain(tx) /\ NothingLeftOnClosed
  BY <1>1 DEF ClosingIn, Plain, NothingLeftOnClosed
<1>3. \A q \in Request : DeskIn(desk[q], tx)
  BY <1>1 DEF DeskIn, Idle
<1> QED
  BY <1>1, <1>2, <1>3 DEF ExitInv

\* A handler's transaction.
LEMMA ExitInvEnds ==
    ASSUME ReviewInv, ReviewInv', ExitInv, NEW q \in Request, Kept, Sits(q, Idle), ExitKept
    PROVE  ExitInv'
<1>1. desk' = [p \in Request |-> IF p = q THEN Idle ELSE desk[p]]
  BY DEF ReviewInv, Sits
<1>2. \A p \in Request : DeskIn(desk[p], tx')
  BY DeskStays DEF ReviewInv, ExitInv, Kept, ExitKept
<1>3. DeskIn(Idle, tx')
  BY DEF DeskIn, Idle
<1>4. \A p \in Request : DeskIn(desk'[p], tx')
  BY <1>1, <1>2, <1>3
<1> QED
  BY <1>4 DEF ExitInv, ExitKept

\* A handler's first part.
LEMMA ExitInvBegins ==
    ASSUME ReviewInv, ExitInv, NEW q \in Request, UNCHANGED tables, NEW d, Sits(q, d), DeskIn(d, tx)
    PROVE  ExitInv'
<1>1. desk' = [p \in Request |-> IF p = q THEN d ELSE desk[p]]
  BY DEF ReviewInv, Sits
<1>2. UNCHANGED <<tx, account, holder, cache>>
  BY DEF tables
<1>3. \A p \in Request : DeskIn(desk'[p], tx)
  BY <1>1 DEF ExitInv
<1>4. NothingLeftOnClosed'
  BY <1>2 DEF ExitInv, NothingLeftOnClosed
<1> QED
  BY <1>2, <1>3, <1>4 DEF ExitInv

LEMMA BeginsOnDesk ==
    ASSUME ReviewInv, ExitInv, NEW q \in Request, Begins(q)
    PROVE  UNCHANGED tables /\ \E d : Sits(q, d) /\ DeskIn(d, tx)
<1>1. ASSUME NEW o \in Captors, BeginDeposit(q, o) \/ BeginWithdrawal(q, o) \/ BeginTransfer(q, o)
      PROVE  UNCHANGED tables /\ \E d : Sits(q, d) /\ DeskIn(d, tx)
  <2>1. PICK form : Routes(q, o, form)
    BY <1>1 DEF BeginDeposit, BeginWithdrawal, BeginTransfer
  <2>2. PICK d : d = [by |-> o, does |-> "record", form |-> form, chain |-> Route(form[Lead(form)].amount),
                      step |-> FirstStep(Route(form[Lead(form)].amount))]
    OBVIOUS
  <2>3. d.does = "record" /\ Sits(q, d) /\ UNCHANGED tables
    BY <2>1, <2>2 DEF Routes
  <2> QED
    BY <2>3 DEF DeskIn
<1>2. ASSUME NEW o \in Captors, BeginRequest(q, o)
      PROVE  UNCHANGED tables /\ \E d : Sits(q, d) /\ DeskIn(d, tx)
  <2>1. PICK form \in Drafted : Sits(q, [by |-> o, does |-> "draft", form |-> form])
    BY <1>2 DEF BeginRequest
  <2>2. PICK d : d = [by |-> o, does |-> "draft", form |-> form]
    OBVIOUS
  <2>3. d.does = "draft" /\ Sits(q, d) /\ UNCHANGED tables
    BY <1>2, <2>1, <2>2 DEF BeginRequest
  <2> QED
    BY <2>3 DEF DeskIn
<1>3. ASSUME NEW o \in Captors, NEW t \in Tx, BeginUpdateRequest(q, o, t)
      PROVE  UNCHANGED tables /\ \E d : Sits(q, d) /\ DeskIn(d, tx)
  <2>1. PICK amount \in Amounts : Sits(q, [by |-> o, does |-> "edit", tx |-> t, amount |-> amount])
    BY <1>3 DEF BeginUpdateRequest
  <2>2. PICK d : d = [by |-> o, does |-> "edit", tx |-> t, amount |-> amount]
    OBVIOUS
  <2>3. d.does = "edit" /\ d.amount = amount /\ Sits(q, d) /\ UNCHANGED tables /\ amount \in Int
    BY <1>3, <2>1, <2>2, BandAssumption DEF BeginUpdateRequest
  <2> QED
    BY <2>3 DEF DeskIn
<1>4. ASSUME NEW o \in Captors, NEW t \in Tx, BeginSubmitRequest(q, o, t)
      PROVE  UNCHANGED tables /\ \E d : Sits(q, d) /\ DeskIn(d, tx)
  <2>2. PICK d : d = [by |-> o, does |-> "send", tx |-> t, chain |-> Route(tx[t].amount),
                      step |-> FirstStep(Route(tx[t].amount))]
    OBVIOUS
  <2>3. d.does = "send" /\ Sits(q, d) /\ UNCHANGED tables
    BY <1>4, <2>2 DEF BeginSubmitRequest
  <2> QED
    BY <2>3 DEF DeskIn
<1>5. ASSUME NEW o \in Captors, NEW t \in Tx, BeginCancelRequest(q, o, t)
      PROVE  UNCHANGED tables /\ \E d : Sits(q, d) /\ DeskIn(d, tx)
  <2>2. PICK d : d = [by |-> o, does |-> "drop", tx |-> t]
    OBVIOUS
  <2>3. d.does = "drop" /\ Sits(q, d) /\ UNCHANGED tables
    BY <1>5, <2>2 DEF BeginCancelRequest
  <2> QED
    BY <2>3 DEF DeskIn
<1>6. ASSUME NEW o \in Captors, NEW t \in Tx, NEW a, NEW amount \in Amounts, Corrects(q, o, t, a, amount)
      PROVE  UNCHANGED tables /\ \E d : Sits(q, d) /\ DeskIn(d, tx)
  <2>1. PICK d : d = [by |-> o, does |-> "resubmit", tx |-> t, amount |-> amount, account |-> a,
                      chain |-> Route(amount), step |-> FirstStep(Route(amount)),
                      leftChain |-> chain[t], leftStep |-> step[t]]
    OBVIOUS
  <2>2. d.does = "resubmit" /\ d.amount = amount
    BY <2>1
  <2>3. Sits(q, d) /\ UNCHANGED tables /\ amount \in Int
    BY <1>6, <2>1, BandAssumption DEF Corrects
  <2> QED
    BY <2>2, <2>3 DEF DeskIn
<1>7. ASSUME NEW o \in Captors, NEW t \in Tx,
             \/ BeginResubmitDeposit(q, o, t) \/ BeginResubmitWithdrawal(q, o, t)
             \/ BeginResubmitTransfer(q, o, t)
      PROVE  UNCHANGED tables /\ \E d : Sits(q, d) /\ DeskIn(d, tx)
  <2>1. PICK a : \E amount \in Amounts : Corrects(q, o, t, a, amount)
    BY <1>7 DEF BeginResubmitDeposit, BeginResubmitWithdrawal, BeginResubmitTransfer
  <2> QED
    BY <1>6, <2>1
<1>8. ASSUME NEW o \in Officer, NEW t \in Tx, BeginReview(q, o, t)
      PROVE  UNCHANGED tables /\ \E d : Sits(q, d) /\ DeskIn(d, tx)
  <2>1. PICK e \in Outcomes(t) :
            Sits(q, [by |-> o, does |-> "review", tx |-> t, to |-> e.to, step |-> e.step, as |-> e.as])
    BY <1>8 DEF BeginReview
  <2>2. PICK d : d = [by |-> o, does |-> "review", tx |-> t, to |-> e.to, step |-> e.step, as |-> e.as]
    OBVIOUS
  <2>3. d.does = "review" /\ Sits(q, d) /\ UNCHANGED tables
    BY <1>8, <2>1, <2>2 DEF BeginReview
  <2> QED
    BY <2>3 DEF DeskIn
<1>9. ASSUME NEW o \in Posters, NEW t \in Tx, BeginPost(q, o, t)
      PROVE  UNCHANGED tables /\ \E d : Sits(q, d) /\ DeskIn(d, tx)
  <2>2. PICK d : d = [by |-> o, does |-> "post", tx |-> t]
    OBVIOUS
  <2>3. d.does = "post" /\ Sits(q, d) /\ UNCHANGED tables
    BY <1>9, <2>2 DEF BeginPost
  <2> QED
    BY <2>3 DEF DeskIn
\* An exit is not reversed, and the other legs of a transfer are legs.
<1>10. ASSUME NEW o \in Reversers, NEW t \in Tx, BeginReverse(q, o, t)
       PROVE  UNCHANGED tables /\ \E d : Sits(q, d) /\ DeskIn(d, tx)
  <2>1. PICK d : d = [by |-> o, does |-> "reverse", targets |-> ReversedWith(t)]
    OBVIOUS
  <2>2. d.does = "reverse" /\ d.targets = ReversedWith(t) /\ Sits(q, d) /\ UNCHANGED tables
    BY <1>10, <2>1 DEF BeginReverse
  <2>3. ASSUME NEW u \in ReversedWith(t)
        PROVE  tx[u].kind \notin ExitKind
    <3>1. CASE u = t
      BY <1>10, <3>1 DEF BeginReverse
    <3>2. CASE u # t
      <4>1. u \in Tx /\ tx[u] # NoRow /\ tx[t] # NoRow /\ tx[t].kind = "transfer_leg" /\ tx[u].transfer = tx[t].transfer
        BY <3>2 DEF ReversedWith, OtherLegs
      <4>2. IsRow(tx[t]) /\ IsRow(tx[u])
        BY <4>1 DEF ReviewInv, Holds, RowsIn
      <4>3. tx[u].kind = "transfer_leg"
        BY <4>1, <4>2, NoTransferAssumption DEF IsRow
      <4> QED
        BY <4>3 DEF ExitKind
    <3> QED
      BY <3>1, <3>2
  <2> QED
    BY <2>2, <2>3 DEF DeskIn
<1> QED
  BY <1>1, <1>2, <1>3, <1>4, <1>5, <1>7, <1>8, <1>9, <1>10 DEF Begins

LEMMA ExitBeginsOnDesk ==
    ASSUME ReviewInv, NEW q \in Request, NEW o \in Captors, ExitBegins(q, o)
    PROVE  UNCHANGED tables /\ \E d : Sits(q, d) /\ DeskIn(d, tx)
<1>1. UNCHANGED tables
  BY ExitBegun
<1>2. PICK t \in Tx :
             \/ \E r \in ExitForms[t] : \E amount :
                   Sits(q, [by |-> o, does |-> "start", tx |-> t,
                            row |-> [r EXCEPT !.status = "draft", !.amount = amount]])
             \/ OwnEditable(o, t) /\ Sends(q, o, t)
             \/ OwnEditable(o, t) /\ Sits(q, [by |-> o, does |-> "cancel", tx |-> t])
  BY ExitBegun
<1>3. ASSUME NEW r \in ExitForms[t], NEW amount,
             Sits(q, [by |-> o, does |-> "start", tx |-> t,
                      row |-> [r EXCEPT !.status = "draft", !.amount = amount]])
      PROVE  \E d : Sits(q, d) /\ DeskIn(d, tx)
  <2>1. r \in Row /\ ~r.carried
    BY <1>3, ExitFormsAssumption DEF ExitForm
  <2>2. PICK u : u = [r EXCEPT !.status = "draft", !.amount = amount]
    OBVIOUS
  <2>3. ~u.carried
    BY <2>1, <2>2 DEF Row
  <2>4. PICK d : d = [by |-> o, does |-> "start", tx |-> t, row |-> u]
    OBVIOUS
  <2>5. d.does = "start" /\ d.row = u /\ Sits(q, d)
    BY <1>3, <2>2, <2>4
  <2> QED
    BY <2>3, <2>5 DEF DeskIn
<1>4. ASSUME Sends(q, o, t)
      PROVE  \E d : Sits(q, d) /\ DeskIn(d, tx)
  <2>1. PICK d : d = [by |-> o, does |-> "submit", tx |-> t, amount |-> Total(tx[t]),
                      settles |-> Open(tx[t]), again |-> tx[t].status = "returned",
                      chain |-> ExitRoute, step |-> FirstStep(ExitRoute),
                      leftChain |-> chain[t], leftStep |-> step[t]]
    OBVIOUS
  <2>2. d.does = "submit" /\ d.tx = t /\ d.settles = Open(tx[t])
    BY <2>1
  <2>3. Sits(q, d)
    BY <1>4, <2>1 DEF Sends
  <2> QED
    BY <2>2, <2>3 DEF DeskIn, Open
<1>5. ASSUME Sits(q, [by |-> o, does |-> "cancel", tx |-> t])
      PROVE  \E d : Sits(q, d) /\ DeskIn(d, tx)
  <2>1. PICK d : d = [by |-> o, does |-> "cancel", tx |-> t]
    OBVIOUS
  <2>2. d.does = "cancel" /\ Sits(q, d)
    BY <1>5, <2>1
  <2> QED
    BY <2>2 DEF DeskIn
<1> QED
  BY <1>1, <1>2, <1>3, <1>4, <1>5

LEMMA CommitKeeps ==
    ASSUME ReviewInv, NEW q \in Request, Commits(q)
    PROVE  Kept /\ Sits(q, Idle)
<1>1. Kept
  BY RecordedKeeps, DraftKeeps, UpdateKeeps, SendKeeps, ResubmittedKeeps, ReviewKeeps, PostKeeps, ReverseKeeps
     DEF Commits, CommitDeposit, CommitWithdrawal, CommitTransfer,
         CommitResubmitDeposit, CommitResubmitWithdrawal, CommitResubmitTransfer
<1>2. Sits(q, Idle)
  BY DEF Commits, CommitDeposit, CommitWithdrawal, CommitTransfer, Recorded,
         CommitRequest, CommitUpdateRequest, CommitSubmitRequest, CommitCancelRequest,
         CommitResubmitDeposit, CommitResubmitWithdrawal, CommitResubmitTransfer, Resubmitted,
         CommitReview, CommitPost, CommitReverse
<1> QED
  BY <1>1, <1>2

Draftless == \A h \in Holder : holder[h] # "demised" /\ holder'[h] = "demised" => DraftsOf(h, tx') = {}

LEMMA ExitInvStays ==
    ReviewInv /\ ReviewInv' /\ ExitInv /\ [ExitNext]_vars => ExitInv' /\ [Draftless]_vars
<1> SUFFICES ASSUME ReviewInv, ReviewInv', ExitInv, [ExitNext]_vars PROVE ExitInv' /\ Draftless
  OBVIOUS
<1>1. ASSUME NEW q \in Request, Commits(q) \/ ExitCommits(q)
      PROVE  ExitInv' /\ Draftless
  <2>1. Kept /\ Sits(q, Idle)
    BY <1>1, CommitKeeps, ExitKeeps
  <2>2. ExitKept
    BY <1>1, CommitsEnd, ExitCommitsEnd, EffectKeeps
  <2> QED
    BY <2>1, <2>2, ExitInvEnds DEF ExitKept, Draftless
<1>2. ASSUME NEW q \in Request, Begins(q) \/ \E o \in Captors : ExitBegins(q, o)
      PROVE  ExitInv' /\ Draftless
  <2>1. UNCHANGED tables /\ \E d : Sits(q, d) /\ DeskIn(d, tx)
    BY <1>2, BeginsOnDesk, ExitBeginsOnDesk
  <2> QED
    BY <2>1, ExitInvBegins DEF Draftless, tables
<1>3. ASSUME NEW q \in Request, Abandon(q)
      PROVE  ExitInv' /\ Draftless
  <2>1. UNCHANGED tables /\ Sits(q, Idle)
    BY <1>3 DEF Abandon
  <2>2. DeskIn(Idle, tx)
    BY DEF DeskIn, Idle
  <2> QED
    BY <2>1, <2>2, ExitInvBegins DEF Draftless, tables
<1>4. ASSUME UNCHANGED <<tx, account, holder, cache, desk>>
      PROVE  ExitInv' /\ Draftless
  <2>1. NothingLeftOnClosed'
    BY <1>4 DEF ExitInv, NothingLeftOnClosed
  <2> QED
    BY <1>4, <2>1 DEF ExitInv, Draftless
<1>5. ASSUME NEW c \in Chain, NEW s \in Step, Toggle(c, s)
      PROVE  ExitInv' /\ Draftless
  BY <1>4, <1>5 DEF Toggle, tables
<1>6. CASE UNCHANGED vars
  BY <1>4, <1>6 DEF vars, tables
<1> QED
  BY <1>1, <1>2, <1>3, <1>5, <1>6 DEF ExitNext, Next

\* Exits' invariant, for any exits, officers and requests under way together.
THEOREM ExitsHold == ExitSpec => []ExitInv
<1> QED
  BY ReviewInvStarts, ReviewInvStaysOn, ExitInvStarts, ExitInvStays, PTL DEF ExitSpec

\* An account that is closing is closing for an exit still on its way,
\* whichever exits, decisions and withdrawals crossed (closures.ts,
\* resignations.ts, demises.ts, review.ts).
THEOREM ClosingIsForAnExit == ExitSpec => []ClosingForAnExit
<1>1. ExitInv => ClosingForAnExit
  BY DEF ExitInv, ClosingIn, ClosingForAnExit, Waiting, InFlight
<1> QED
  BY <1>1, ExitsHold, PTL

\* No money lies on a closed account but what a death's closure left there
\* (post_transaction's closing of accounts, 0099).
THEOREM ClosedIsEmpty == ExitSpec => []NothingLeftOnClosed
<1>1. ExitInv => NothingLeftOnClosed
  BY DEF ExitInv
<1> QED
  BY <1>1, ExitsHold, PTL

\* A death leaves no draft and no returned transaction of who died
\* (cancelDraftsOnDeath in claimants.ts).
THEOREM DeathLeavesNoDraft == ExitSpec => NoDraftOutlives
<1> QED
  BY ReviewInvStarts, ReviewInvStaysOn, ExitInvStarts, ExitInvStays, PTL
     DEF ExitSpec, NoDraftOutlives, Draftless
=============================================================================
