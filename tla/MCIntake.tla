------------------------------ MODULE MCIntake ------------------------------
(***************************************************************************)
(* Small instances of Fees and of Documents for TLC, in one run.  The two  *)
(* meet only in an application's status, so a behaviour has steps of one   *)
(* of them.                                                                *)
(*                                                                         *)
(* Where fees are followed, a behaviour starts on a day without cash, its  *)
(* drawer counted already, or on one where the only transfer a member      *)
(* offered was cancelled: a drawer and a transfer never meet, so nothing   *)
(* is lost by looking at them apart.                                       *)
(***************************************************************************)
EXTENDS Fees, Documents, TLC

Author == [a \in Application |-> CHOOSE o \in Cashiers : TRUE]
OnePaper == [d \in Document |-> CHOOSE a \in Application : TRUE]
FilesDiffer == CHOOSE f \in [Version -> 1..Cardinality(Version)] : \A v, w \in Version : f[v] = f[w] => v = w
Symmetry == Permutations(Request)

NoCash ==
    /\ fees = [x \in FeeTransfer |-> NoTransfer]
    /\ \E o \in Cashiers :
         drawer = [d \in Drawer |-> [state |-> "closed", of |-> o, expected |-> 0]]

NoMemberPays ==
    /\ \E a \in Application \ Opening, o \in Cashiers :
         fees = [x \in FeeTransfer |->
                  [app |-> a, by |-> o, status |-> "cancelled", paid |-> NoReceipt,
                   receipt |-> NoReceipt, reversed |-> FALSE]]
    /\ drawer = [d \in Drawer |-> [state |-> "unused"]]

Start ==
    /\ receipt = [r \in Receipt |-> "unused"]
    /\ payment = [r \in Receipt |-> NoPayment]
    /\ desk = [q \in Request |-> Idle]
    /\ status = [a \in Application |-> "draft"]
    /\ opened = {}
    /\ NoPapers
    /\ NoCash \/ NoMemberPays

\* Bounds: which of the two is followed, and for papers, one request of an
\* officer at a time.
NoMoneyYet == Unused = Receipt /\ (NoCash \/ NoMemberPays)
NoPaperYet == \A v \in Version : version[v] = NoVersion

MCSpec ==
    Start /\ [][\/ NoPaperYet /\ FeesNext /\ UNCHANGED papers
                \/ NoMoneyYet /\ PapersNext /\ OneAtATime' /\ UNCHANGED <<opened, money>>
               ]_<<feeVars, papers>>
=============================================================================
