------------------------------ MODULE MCReview ------------------------------
(***************************************************************************)
(* Instances of Review.  ann's Shares and bob's; officers who may all      *)
(* capture, review, post and reverse, so that only the rules keep them     *)
(* apart; the member app beside them.  Amount 3 posts at once.             *)
(***************************************************************************)
EXTENDS Review, TLC

CONSTANTS shares, bobs, ann, bob, o1, o2, o3, app, q1, q2,
          opening, debitLeg, creditLeg, r1, r2, r3, r4

Base == [kind |-> "deposit", status |-> "submitted", account |-> shares,
         amount |-> 3, leg |-> "none", transfer |-> NoTransfer, reverses |-> NoTx,
         carried |-> FALSE, claimant |-> FALSE, benefit |-> 0]

Opening == opening :> Base
Paper(kind, amount) == debitLeg :> [Base EXCEPT !.kind = kind, !.amount = amount]
Leg(direction, a, amount) == [Base EXCEPT !.kind = "transfer_leg", !.leg = direction,
                                 !.transfer = "transfer", !.account = a, !.amount = amount]
Transferred(amount) == debitLeg :> Leg("debit", shares, amount)
                       @@ creditLeg :> Leg("credit", bobs, amount)

MCHolder == {ann, bob}
MCTransfer == {"transfer"}
MCAccount == {shares, bobs}
MCHolderOf == [a \in MCAccount |-> IF a = bobs THEN bob ELSE ann]
MCFloor == [a \in MCAccount |-> IF a = shares THEN 1 ELSE 0]
MCAmounts == {1, 2, 3}

\* One chain for a transfer of 1 or 2.
OneChain == {"one"}
OneBand == [a \in MCAmounts |-> IF a = 3 THEN NoChain ELSE "one"]
TransferTx == {opening, debitLeg, creditLeg}
TransferForms == {Opening, Transferred(1)}
Officers == {o1, o2, o3}
TransferOfficers == Officers \cup {app}
AllSteps == [o \in Officers \cup {app} |-> IF o = app THEN {} ELSE OneChain \X Step]
MCRequest == {q1, q2}
Clerks == {o1}
Alike == Permutations(Officers \ Clerks) \cup Permutations(MCRequest)

\* Two chains, the amount decides; ann has both accounts, and the app captures.
TwoChains == {"one", "two"}
TwoBand == [a \in MCAmounts |-> CASE a = 1 -> "one" [] a = 2 -> "two" [] OTHER -> NoChain]
AnnsAccounts == [a \in MCAccount |-> ann]
NoFloor == [a \in MCAccount |-> 0]
AppAndClerks == Clerks \cup {app}
EveryStep == [o \in Officers \cup {app} |-> IF o = app THEN {} ELSE TwoChains \X Step]

\* Beside them a transfer that posts at once, and its reversals, with room
\* for those of two calls: the debit leg's in r1 and r3, the credit leg's in
\* r2 and r4.  One story at a time.
PaperTx == {opening, debitLeg, creditLeg, r1, r2, r3, r4}
ReversalSpare == {r1, r2, r3, r4}
PaperForms == {Opening, Transferred(3), Paper("deposit", 1), Paper("withdrawal", 1)}
There(t) == tx[t] # NoRow
Reversing ==
    /\ There(creditLeg) /\ tx[debitLeg].status = "posted"
    /\ \A c \in Chain : enabled[c] = Step
    /\ \A t \in {r1, r3} : There(t) => tx[t].reverses = debitLeg
    /\ \A t \in {r2, r4} : There(t) => tx[t].reverses = creditLeg
    /\ (There(r3) => There(r1)) /\ (There(r4) => There(r2))
OneStory ==
    \/ /\ enabled["two"] = Step
       /\ \A t \in ReversalSpare : ~There(t)
       /\ \A q \in Request : desk[q].does # "reverse"
    \/ Reversing
=============================================================================
