-------------------------------- MODULE Jobs --------------------------------
(***************************************************************************)
(* A long job that can be interrupted: runJob in lib/jobs/runner.ts, with  *)
(* the chunked sweep of lib/jobs/chunked-sweep.ts as its body.             *)
(*                                                                         *)
(* A container holds the job's advisory lock on one database session, on   *)
(* which it also writes job_run; the sweep reads and works on the pool's   *)
(* connections.  A container may be told to stop, or die, and its session  *)
(* may be lost under it: the server then gives the lock away while the     *)
(* process goes on until it next uses the session.                         *)
(***************************************************************************)
EXTENDS Integers, Sequences, FiniteSets, FiniteSetsExt

CONSTANTS
    Instance,  \* containers that may run the job
    Id,        \* ids a row to sweep may have, in the order of the sweep
    Initially, \* the rows on the table at first
    ChunkSize, \* rows to a chunk
    MaxRuns,   \* bound: runs started
    MaxStops,  \* bound: containers told to stop
    MaxBreaks  \* bound: containers that die or lose their session

ASSUME IdAssumption == Id \subseteq Nat \ {0} /\ Initially \subseteq Id
ASSUME BoundAssumption == ChunkSize \in Nat \ {0} /\ MaxRuns \in Nat

VARIABLES
    present, \* the rows on the table
    run,     \* job_run, by started_at
    lock,    \* the instance whose session holds the advisory lock
    inst,    \* each container: where it is, and what it keeps in memory
    swept,   \* how often each run did the work of each row
    due,     \* the rows that were on the table when each run was created
    stops,   \* how often a container was told to stop
    breaks   \* how often one died or lost its session

jobs == <<present, run, lock, inst, swept, due, stops, breaks>>

Runs == 1..MaxRuns
Unlocked == "unlocked" \* nobody's lock
Orphaned == "orphaned" \* held by the session of a dead container

Off == [at |-> "off", stopping |-> FALSE, run |-> 0, cursor |-> 0, processed |-> 0, chunk |-> {}]

JobsInit ==
    /\ present = Initially
    /\ run = <<>>
    /\ lock = Unlocked
    /\ inst = [i \in Instance |-> Off]
    /\ swept = [r \in Runs |-> [x \in Id |-> 0]]
    /\ due = [r \in Runs |-> {}]
    /\ stops = 0
    /\ breaks = 0

NowAt(i, at) == inst' = [inst EXCEPT ![i].at = at]

\* Mutant of Leaves: the connection is not closed.
KeepsConnection(i) ==
    /\ inst' = [inst EXCEPT ![i] = Off]
    /\ UNCHANGED lock

\* The run ends for this container: its connection closes, and the lock with it.
Leaves(i) ==
    /\ inst' = [inst EXCEPT ![i] = Off]
    /\ lock' = IF lock = i THEN Unlocked ELSE lock

OpenRuns == {r \in DOMAIN run : run[r].status = "running"}

----------------------------------------------------------------------------
(* runJob: start, lock, find or create the run *)

Start(i) ==
    /\ inst[i].at = "off"
    /\ OpenRuns # {} \/ Len(run) < MaxRuns
    /\ NowAt(i, "connected")
    /\ UNCHANGED <<present, run, lock, swept, due, stops, breaks>>

\* Not blocking: a container that finds the lock taken leaves.
TryLock(i) ==
    /\ inst[i].at = "connected"
    /\ IF lock = Unlocked
       THEN lock' = i /\ NowAt(i, "locked")
       ELSE Leaves(i)
    /\ UNCHANGED <<present, run, swept, due, stops, breaks>>

\* Holding the lock, a run still open is one to resume.
Resume(i) ==
    /\ inst[i].at = "locked" /\ lock = i
    /\ OpenRuns # {}
    /\ LET r == Max(OpenRuns)
       IN  /\ run' = [run EXCEPT ![r].attempt = @ + 1]
           /\ inst' = [inst EXCEPT ![i].at = "between", ![i].run = r,
                           ![i].cursor = run[r].cursor, ![i].processed = run[r].processed]
    /\ UNCHANGED <<present, lock, swept, due, stops, breaks>>

\* Mutant of Create: a container always begins a run of its own.
CreateAnew(i) ==
    /\ inst[i].at = "locked" /\ lock = i
    /\ Len(run) < MaxRuns
    /\ run' = Append(run, [status |-> "running", attempt |-> 1, cursor |-> 0, processed |-> 0])
    /\ due' = [due EXCEPT ![Len(run) + 1] = present]
    /\ inst' = [inst EXCEPT ![i].at = "between", ![i].run = Len(run) + 1]
    /\ UNCHANGED <<present, lock, swept, stops, breaks>>

Create(i) ==
    /\ inst[i].at = "locked" /\ lock = i
    /\ OpenRuns = {} /\ Len(run) < MaxRuns
    /\ run' = Append(run, [status |-> "running", attempt |-> 1, cursor |-> 0, processed |-> 0])
    /\ due' = [due EXCEPT ![Len(run) + 1] = present]
    /\ inst' = [inst EXCEPT ![i].at = "between", ![i].run = Len(run) + 1]
    /\ UNCHANGED <<present, lock, swept, stops, breaks>>

----------------------------------------------------------------------------
(* runChunkedSweep *)

\* The next rows in id order after a cursor.
ChunkAfter(c) ==
    {x \in present : x > c /\ Cardinality({y \in present : y > c /\ y < x}) < ChunkSize}

\* Between chunks: stop if asked to, end if nothing is left.  The read may fail.
ReadChunk(i) ==
    /\ inst[i].at = "between"
    /\ \/ LET chunk == IF inst[i].stopping THEN {} ELSE ChunkAfter(inst[i].cursor)
          IN  inst' = [inst EXCEPT ![i].at = IF chunk = {} THEN "finished" ELSE "read",
                                   ![i].chunk = chunk]
       \/ ~inst[i].stopping /\ NowAt(i, "failed")
    /\ UNCHANGED <<present, run, lock, swept, due, stops, breaks>>

Swept(i, rows) ==
    swept' = [swept EXCEPT ![inst[i].run] = [x \in Id |-> IF x \in rows THEN @[x] + 1 ELSE @[x]]]

\* The chunk's work, all of it, or an error part of the way.
Work(i) ==
    /\ inst[i].at = "read"
    /\ \/ Swept(i, inst[i].chunk) /\ NowAt(i, "worked")
       \/ \E part \in SUBSET inst[i].chunk : Swept(i, part) /\ NowAt(i, "failed")
    /\ UNCHANGED <<present, run, lock, due, stops, breaks>>

\* The checkpoint, after the work and on the session that holds the lock.
Save(i) ==
    /\ inst[i].at = "worked" /\ lock = i
    /\ LET cursor == Max(inst[i].chunk)
           processed == inst[i].processed + Cardinality(inst[i].chunk)
       IN  /\ run' = [run EXCEPT ![inst[i].run].cursor = cursor,
                                 ![inst[i].run].processed = processed]
           /\ inst' = [inst EXCEPT ![i].at = "between", ![i].cursor = cursor,
                                   ![i].processed = processed]
    /\ UNCHANGED <<present, lock, swept, due, stops, breaks>>

----------------------------------------------------------------------------
(* runJob: how a run ends *)

Closes(i, status) ==
    /\ lock = i
    /\ run' = [run EXCEPT ![inst[i].run].status = status]

Fail(i) ==
    /\ inst[i].at = "failed"
    /\ Closes(i, "failed")
    /\ Leaves(i)
    /\ UNCHANGED <<present, swept, due, stops, breaks>>

\* Mutant of Finish: told to stop or not, the run has succeeded.
FinishStopped(i) ==
    /\ inst[i].at = "finished"
    /\ Closes(i, "succeeded")
    /\ Leaves(i)
    /\ UNCHANGED <<present, swept, due, stops, breaks>>

\* Asked to stop, it leaves the run open for the next container to resume,
\* whether the sweep had ended or not.
Finish(i) ==
    /\ inst[i].at = "finished"
    /\ IF inst[i].stopping THEN UNCHANGED run ELSE Closes(i, "succeeded")
    /\ Leaves(i)
    /\ UNCHANGED <<present, swept, due, stops, breaks>>

\* Its session is gone: the next statement on it throws, and so does the one
\* that would mark the run failed.
FindLost(i) ==
    /\ inst[i].at \in {"locked", "worked", "failed", "finished"}
    /\ lock # i
    /\ ~(inst[i].at = "finished" /\ inst[i].stopping)
    /\ Leaves(i)
    /\ UNCHANGED <<present, run, swept, due, stops, breaks>>

----------------------------------------------------------------------------
(* The platform *)

Breaks == breaks < MaxBreaks /\ breaks' = breaks + 1 /\ UNCHANGED stops

\* SIGTERM before an eviction
Signal(i) ==
    /\ inst[i].at # "off" /\ ~inst[i].stopping
    /\ stops < MaxStops /\ stops' = stops + 1
    /\ inst' = [inst EXCEPT ![i].stopping = TRUE]
    /\ UNCHANGED <<present, run, lock, swept, due, breaks>>

\* The container is gone; the server has yet to notice its session.
Die(i) ==
    /\ inst[i].at # "off"
    /\ inst' = [inst EXCEPT ![i] = Off]
    /\ lock' = IF lock = i THEN Orphaned ELSE lock
    /\ Breaks
    /\ UNCHANGED <<present, run, swept, due>>

Notice ==
    /\ lock = Orphaned
    /\ lock' = Unlocked
    /\ UNCHANGED <<present, run, inst, swept, due, stops, breaks>>

\* The server ends the session of a container that still runs.
Sever(i) ==
    /\ lock = i
    /\ lock' = Unlocked
    /\ Breaks
    /\ UNCHANGED <<present, run, inst, swept, due>>

\* A row is added while the sweep is on.
Insert(x) ==
    /\ x \notin present
    /\ present' = present \cup {x}
    /\ UNCHANGED <<run, lock, inst, swept, due, stops, breaks>>

----------------------------------------------------------------------------

\* What a container does by itself.
Proceed(i) ==
    \/ TryLock(i) \/ Resume(i) \/ Create(i) \/ ReadChunk(i) \/ Work(i) \/ Save(i)
    \/ Fail(i) \/ Finish(i) \/ FindLost(i)

JobsNext ==
    \/ \E i \in Instance : Start(i) \/ Proceed(i) \/ Signal(i) \/ Die(i) \/ Sever(i)
    \/ Notice
    \/ \E x \in Id : Insert(x)

\* A container that runs goes on running, the schedule starts one again, and
\* the server notices a dead session.
JobsFairness ==
    /\ \A i \in Instance : WF_jobs(Start(i)) /\ WF_jobs(Proceed(i))
    /\ WF_jobs(Notice)

JobsSpec == JobsInit /\ [][JobsNext]_jobs /\ JobsFairness

----------------------------------------------------------------------------
(* Properties *)

\* A run left open is found and resumed, never run beside another: two
\* containers that start together, or one that starts as another dies, never
\* leave two open runs.
OneOpenRun == Cardinality(OpenRuns) <= 1

\* "Skipping a member silently is not" recoverable (chunked-sweep.ts): every
\* row that was there when a run began has been worked as the cursor passes
\* it, and all of them when the run has succeeded.
NothingMissed ==
    \A r \in DOMAIN run : \A x \in due[r] :
        x <= run[r].cursor \/ run[r].status = "succeeded" => swept[r][x] > 0

\* A run ends: started again after every stop and death, it succeeds or
\* fails.
EveryRunEnds ==
    \A r \in Runs : r \in OpenRuns ~> (r \in DOMAIN run /\ r \notin OpenRuns)
=============================================================================
