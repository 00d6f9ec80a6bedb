------------------------------ MODULE MCLedger ------------------------------
(***************************************************************************)
(* An instance of Ledger: ann's Shares account, with a floor of 1, and her *)
(* MSA, and bob's; a deposit, keyed or carried over, a withdrawal, a       *)
(* reversal that may take the balance below zero, and a transfer or an     *)
(* exit.                                                                   *)
(***************************************************************************)
EXTENDS Ledger

CONSTANTS shares, msa, bobs, ann, bob,
          opening, drawing, debitLeg, creditLeg, reversal, leave

Base == [kind |-> "deposit", status |-> "submitted", account |-> shares,
         amount |-> 2, leg |-> "none", transfer |-> NoTransfer, reverses |-> NoTx,
         carried |-> FALSE, claimant |-> FALSE, benefit |-> 0]

Withdrawal == [Base EXCEPT !.kind = "withdrawal", !.amount = 1]
Leg == [Base EXCEPT !.kind = "transfer_leg", !.leg = "debit", !.transfer = "transfer",
                    !.amount = 1]
Reversal(t) == [Base EXCEPT !.kind = "reversal", !.reverses = t, !.amount = 1]

MCHolder == {ann, bob}
MCTransfer == {"transfer"}

MCTx == {opening, drawing, debitLeg, creditLeg, reversal, leave}
MCAccount == {shares, msa, bobs}
AnnsCore == {shares, msa}
MCHolderOf == [a \in MCAccount |-> IF a = bobs THEN bob ELSE ann]
MCFloor == [a \in MCAccount |-> IF a = shares THEN 1 ELSE 0]
MCRequests == [t \in MCTx |->
    CASE t = opening   -> {Base, [Base EXCEPT !.carried = TRUE], [Base EXCEPT !.account = msa]}
      [] t = drawing   -> {Withdrawal}
      [] t = debitLeg  -> {Leg}
      [] t = creditLeg -> {[Leg EXCEPT !.leg = "credit", !.account = bobs]}
      [] t = reversal  -> {[Reversal(r) EXCEPT !.status = "draft"] : r \in {opening, drawing}}
      [] t = leave     -> {[Base EXCEPT !.kind = "resignation"],
                           [Base EXCEPT !.kind = "demise", !.benefit = 1, !.claimant = TRUE],
                           [Base EXCEPT !.kind = "closure"],
                           [Base EXCEPT !.kind = "closure", !.claimant = TRUE]}]
MCWorkStatus == {"approved", "returned"}
MCAmounts == {0, 2}
MCOpenStatus == {"active", "closing"}

\* A bound: no behaviour has both the transfer and the exit.
OneStory == tx[leave] = NoRow \/ (tx[debitLeg] = NoRow /\ tx[creditLeg] = NoRow)
=============================================================================
