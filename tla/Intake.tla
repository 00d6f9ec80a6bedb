------------------------------- MODULE Intake -------------------------------
(***************************************************************************)
(* What fees, documents and the workflow of a membership application       *)
(* share: the status of each application and the requests under way.       *)
(* Fees, Documents and Applications extend it; it has no specification of  *)
(* its own.                                                                *)
(*                                                                         *)
(* A request is a record: what its handler does, and what it has read.     *)
(* Officers' requests interleave; one whose process dies is gone (Dies),   *)
(* with whatever it had committed left as it was.                          *)
(***************************************************************************)
CONSTANTS
    Application,  \* membership applications
    Officer,      \* everyone who acts, the member app's system user included
    CapturedBy,   \* captured_by of each application
    Request       \* requests that may be under way at once

ASSUME CapturedByAssumption == CapturedBy \in [Application -> Officer]

VARIABLES
    status,  \* membership_application.status
    desk     \* requests under way

Status == {"draft", "received", "returned", "new", "submitted_for_approval", "approved", "rejected"}

\* isEditableStatus: back in the hands of the officer who fills it in.
Editable == {"draft", "received", "returned"}

Decided == {"approved", "rejected"}
Undecided(a) == status[a] \notin Decided

Idle == [does |-> "nothing"]
Sits(q, request) == desk' = [desk EXCEPT ![q] = request]
Dies(q) == desk[q] # Idle /\ Sits(q, Idle)

\* A bound some runs keep to: an officer finishes one request before the next.
OneAtATime ==
    \A p, q \in Request :
        (p # q /\ "by" \in DOMAIN desk[p] /\ "by" \in DOMAIN desk[q]) => desk[p].by # desk[q].by
=============================================================================
