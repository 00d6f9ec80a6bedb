------------------------------- MODULE MCExits -------------------------------
(***************************************************************************)
(* Instances of Exits.  ann, a member, has Shares and a savings account;   *)
(* bob, a customer, has two.  o1 captures, o2 reviews, o3 pays out.  What  *)
(* is deposited posts at once; exits go through a chain of one step.       *)
(***************************************************************************)
EXTENDS Exits, TLC

CONSTANTS shares, hsa, bobs, bobs2, ann, bob, o1, o2, o3, app, q1, q2,
          opening, request, leave, claim, shut, one

Base == [kind |-> "deposit", status |-> "submitted", account |-> shares,
         amount |-> 2, leg |-> "none", transfer |-> NoTransfer, reverses |-> NoTx,
         carried |-> FALSE, claimant |-> FALSE, benefit |-> 0]

Deposit(a) == opening :> [Base EXCEPT !.account = a]
Closure(a) == [Base EXCEPT !.kind = "closure", !.account = a]
Death(a) == [Closure(a) EXCEPT !.claimant = TRUE]
Resignation == [Base EXCEPT !.kind = "resignation"]
Claim == [Base EXCEPT !.kind = "demise", !.claimant = TRUE, !.benefit = 1]

Forms1(forms) == [t \in Tx |-> IF t \in DOMAIN forms THEN forms[t] ELSE {}]

MCTransfer == {"transfer"}
MCRequest == {q1, q2}
Clerks == {o1}
Officers == {o1, o2, o3}
OfficersAndApp == Officers \cup {app}
OneChain == {one}
MCAmounts == {2}
MCBand == [a \in MCAmounts |-> NoChain]
Reviewing == [o \in OfficersAndApp |-> IF o = o2 THEN OneChain \X Step ELSE {}]
Paying == {o1, o3}
NoFloor == [a \in Account |-> 0]
Alike == Permutations(MCRequest)

AnnsTwo == {shares, hsa}
JustShares == {shares}

Four == {shares, hsa, bobs, bobs2}
AnnAndBob == {ann, bob}
HeldByBoth == [a \in Four |-> IF a \in AnnsTwo THEN ann ELSE bob]
JustBob == {bob}
MCTx == {opening, request, leave, shut, claim}
MCForms == {Deposit(shares), Deposit(hsa), Deposit(bobs2)}
MCDrafted == {request :> [Base EXCEPT !.account = hsa]}
MCExitForms == Forms1(leave :> {Resignation}
                      @@ shut :> {Closure(hsa), Closure(bobs)}
                      @@ claim :> {Claim, Death(bobs2)})

\* Bounds.  Two transactions at most, of one holder: ann resigns (with a deposit to her Shares), or shuts her savings
\* account (with a deposit to it), or dies in the midst of either, or of a
\* deposit request; or bob shuts an account, and dies.  The chain is switched
\* off and on for ann's closure alone.
Written(p) ==
    CASE desk[p].does = "start" -> {<<desk[p].tx, desk[p].row>>}
      [] desk[p].does \in {"record", "draft"} ->
             {<<t, desk[p].form[t]>> : t \in DOMAIN desk[p].form}
      [] OTHER -> {}

Rows == {<<t, tx[t]>> : t \in {u \in Tx : tx[u] # NoRow}} \cup UNION {Written(p) : p \in Request}

OneStory ==
    /\ Cardinality({r[1] : r \in Rows}) <= 2
    /\ \A r, s \in Rows :
           /\ HolderOf[r[2].account] = HolderOf[s[2].account]
           /\ r[2].kind = "resignation" => s[2].account # hsa
           /\ r[1] = request => s[1] \in {request, claim}
    /\ enabled[one] = {} =>
           \A r \in Rows : r[2].kind \in {"deposit", "closure"} /\ r[2].account = hsa
=============================================================================
