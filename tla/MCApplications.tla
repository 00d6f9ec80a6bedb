--------------------------- MODULE MCApplications ---------------------------
(* Small instances of Applications for TLC. *)
EXTENDS Applications, TLC

OnePaper == [d \in Document |-> CHOOSE a \in Application : TRUE]
FilesDiffer == CHOOSE f \in [Version -> 1..Cardinality(Version)] : \A v, w \in Version : f[v] = f[w] => v = w
Symmetry == Permutations(Request)

CONSTANTS clerk, manager, secretary, president, deputy

Author == [a \in Application |-> clerk]

Roles == [o \in Officer |->
            CASE o = clerk -> {"capture", "president_decision"}
              [] o = manager -> {"regional_review"}
              [] o = secretary -> {"secretary_review"}
              [] o = president -> {"president_decision"}
              [] o = deputy -> {"secretary_review", "president_decision"}]

\* An application paid for with the last receipt number, and its paper filed
\* and checked.
Start ==
    /\ \E v \in Version, o \in Cashiers, r \in Receipt :
        /\ version = [w \in Version |->
             IF w # v THEN NoVersion
             ELSE [doc |-> CHOOSE d \in Document : TRUE, by |-> o, state |-> "committed",
                   name |-> 1, superseded |-> FALSE, sent |-> TRUE]]
        /\ drive = [d \in Document |-> [n \in Name |-> IF n = 1 THEN v ELSE NoFile]]
        /\ payment = [p \in Receipt |-> IF p = r THEN Taken(CHOOSE a \in Application : TRUE, Component, "cheque", o, NoDrawer) ELSE NoPayment]
        /\ r = 1
        /\ receipt = [p \in Receipt |-> IF p = r THEN "issued" ELSE "unused"]
    /\ paper = [d \in Document |-> [state |-> "verified", by |-> secretary]]
    /\ filed = {}
    /\ fees = [x \in FeeTransfer |-> NoTransfer]
    /\ drawer = [d \in Drawer |-> [state |-> "unused"]]
    /\ desk = [q \in Request |-> Idle]
    /\ status \in [Application -> {"draft", "received"}]
    /\ opened = {}
    /\ enabled \in {Step \ Gate, Step}
    /\ passed = [a \in Application |-> {}]
    /\ signoffs = {} /\ trail = {}

MCSpec == Start /\ [][Next /\ OneAtATime']_vars
=============================================================================
