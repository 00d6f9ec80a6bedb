------------------------------ MODULE MCFront ------------------------------
(***************************************************************************)
(* What applicants, members and clients meet: applications and what they   *)
(* make, the app's sign-in, its writes and what its screen shows.  They    *)
(* share no rows here, so a behaviour is one component's and the others    *)
(* stay as they start.                                                     *)
(***************************************************************************)
EXTENDS Admission, Identity, Showcase, Api, TLC

CONSTANTS one, two, first, second, third

Pair == {one, two}
Three == {first, second, third}
Alike == Permutations(Pair) \cup Permutations(Three)

VARIABLE stage  \* the component whose behaviour it is

----------------------------------------------------------------------------
(* Bounds                                                                  *)

(* Admission: an application is open in one tab.                           *)
AdmissionStory == AdmissionNext /\ OneTab'

(* Identity: two codes, or the devices of the sessions one has opened.     *)
DevicesStill ==
    /\ \A p \in Phone : ~device[p].registered
    /\ \A s \in Session : session[s].opened => ~session[s].revoked /\ session[s].refreshed = 0
    /\ \A q \in Caller : caller[q].does \notin {"silence", "register", "push"}
CodesStill ==
    /\ recent = {}
    /\ \A c \in Challenge : challenge[c].issued =>
           challenge[c].attempts = 0 /\ ~challenge[c].expired /\ challenge[c].consumed
    /\ Cardinality({c \in Challenge : challenge[c].issued}) = 1
    /\ \A q \in Caller : caller[q].does \notin {"issue", "send", "count"}
IdentityStory == IdentityNext /\ (DevicesStill \/ CodesStill)'

(* Showcase: one card, which appears once.                                 *)
OneCard == Cardinality({c \in Card : card[c].there \/ appeared[c] > 0 \/ told[c] > 0}) <= 1
ShowcaseStory == ShowcaseNext /\ OneCard' /\ \A c \in Card : appeared'[c] <= 1 /\ told'[c] <= 2

(* Api: either the writes, uncounted, or the counting, unwritten.          *)
Uncounted == failures = 0 /\ \A s \in Subject : window[s] = 0
Ats == {attempt[a].at : a \in Attempt}
Recording == Uncounted /\ credential = "active" /\ Ats \cap {"guess", "presents", "presented"} = {}
Counting ==
    /\ \/ Ats \subseteq {"unsent", "arrives", "lookup", "eligible"}
       \/ Ats \subseteq {"unsent", "guess", "presents", "presented", "over"}
    /\ \A a \in Attempt : row[a] = NoRow
OneName == \A v, w \in Wish : wish[v].by = wish[w].by
ApiStory == ApiNext /\ (Recording \/ Counting)'

----------------------------------------------------------------------------

FrontInit ==
    /\ AdmissionInit /\ IdentityInit /\ ShowcaseInit /\ ApiInit /\ OneName
    /\ stage \in {"admission", "identity", "showcase", "api"}
    /\ stage # "api" => ~switchedOn /\ Cardinality({wish[w] : w \in Wish}) = 1

FrontNext ==
    /\ UNCHANGED stage
    /\ \/ stage = "admission" /\ AdmissionStory /\ UNCHANGED <<identity, showcase, api>>
       \/ stage = "identity" /\ IdentityStory /\ UNCHANGED <<admission, showcase, api>>
       \/ stage = "showcase" /\ ShowcaseStory /\ UNCHANGED <<admission, identity, api>>
       \/ stage = "api" /\ ApiStory /\ UNCHANGED <<admission, identity, showcase>>

FrontSpec == FrontInit /\ [][FrontNext]_<<stage, admission, identity, showcase, api>>
=============================================================================
