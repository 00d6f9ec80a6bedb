----------------------------- MODULE MCServices -----------------------------
(***************************************************************************)
(* What runs beside the counter: the jobs' runs, what they send, the       *)
(* statements to everyone, and what is disposed of.  They share no rows    *)
(* here, so a behaviour is one component's and the others stay as they     *)
(* start.                                                                  *)
(***************************************************************************)
EXTENDS Notifications, Jobs, Retention, Statements, TLC

CONSTANTS i1, i2, founding, d1, d2, p1

Containers == {i1, i2}
ThreeIds == 1..3
AllButTwo == {1, 3}
Dossiers == {founding, d1, d2}
FoundedIt == p1 :> founding

\* Neither is in a behaviour of the components with fairness.
Alike == Permutations({d1, d2})

VARIABLE stage  \* the component whose behaviour it is

----------------------------------------------------------------------------
(* Bounds                                                                  *)

(* Jobs: one container is told to stop, or breaks.                         *)
JobsStory == JobsNext /\ stops' + breaks' <= 1

(* Retention: one class has a period, unchanged during a pass; a member    *)
(* resigns, and messages are sent, only for their own class; no draft is   *)
(* deleted by hand during a pass.                                          *)
RetentionStory ==
    /\ TheJob \/ (TheCounter /\ NoneDeletedMeanwhile)
    /\ Cardinality(period') <= 1
    /\ pass' # NoPass => pass'.periods = period'
    /\ \A q \in Person : person'[q].status = "resigned" => "former" \in period'
    /\ log'.there # 0 => "notifications" \in period' /\ \A h \in Holder : rows'[h] = {}

----------------------------------------------------------------------------

ServicesInit ==
    /\ NotesInit /\ JobsInit /\ RetentionInit /\ StatementsInit
    /\ stage \in {"notes", "jobs", "retention", "statements"}

ServicesNext ==
    /\ UNCHANGED stage
    /\ \/ stage = "notes" /\ NotesNext /\ UNCHANGED <<jobs, retention, statements>>
       \/ stage = "jobs" /\ JobsStory /\ UNCHANGED <<notes, retention, statements>>
       \/ stage = "retention" /\ RetentionStory /\ UNCHANGED <<notes, jobs, statements>>
       \/ stage = "statements" /\ StatementsNext /\ UNCHANGED <<notes, jobs, retention>>

\* NotesFairness and JobsFairness, of the behaviours that are theirs.
ServicesFairness ==
    /\ \A n \in Note : WF_notes(stage = "notes" /\ Passes(n))
    /\ \A s \in Sender : WF_notes(stage = "notes" /\ Works(s))
    /\ \A s \in Run : WF_notes(stage = "notes" /\ StartRun(s))
    /\ \A i \in Instance : /\ WF_jobs(stage = "jobs" /\ Start(i))
                           /\ WF_jobs(stage = "jobs" /\ Proceed(i))
    /\ WF_jobs(stage = "jobs" /\ Notice)

ServicesSpec ==
    /\ ServicesInit
    /\ [][ServicesNext]_<<stage, notes, jobs, retention, statements>>
    /\ ServicesFairness

\* The disposal by night, while the office is shut.
NightNext ==
    /\ stage = "retention" /\ UNCHANGED <<stage, notes, jobs, statements>>
    /\ RetentionStory /\ (pass # NoPass => TheJob)

NightSpec == ServicesInit /\ [][NightNext]_<<stage, notes, jobs, retention, statements>>
=============================================================================
