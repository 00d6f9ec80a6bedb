--------------------------- MODULE Notifications ---------------------------
(***************************************************************************)
(* The outbox (lib/notifications/notify.ts and retry.ts): a row is written *)
(* before its message is sent, and a job comes back to what was not.       *)
(*                                                                         *)
(* Each sender is a process: a request that called notify(), or a run of   *)
(* the job.  It hands a message to a relay, which may take it and not say  *)
(* so, and then writes what it heard on the row, whatever has become of    *)
(* the row meanwhile.  A sender may be as slow as it likes, and may die.   *)
(***************************************************************************)
EXTENDS Integers, FiniteSets

CONSTANTS
    Note,         \* notification rows
    Author,       \* requests that call notify()
    Run,          \* runs of the retry job that may be alive at once
    MaxSends,  \* MAX_ATTEMPTS
    Crashes       \* bound: how many senders die

ASSUME SendsAssumption == MaxSends \in Nat \ {0} /\ Crashes \in Nat
ASSUME SendersAssumption == Author \cap Run = {}

VARIABLES
    note,      \* notification rows
    sender,   \* what each sender has read, and is about to write
    reached,  \* rows whose message a relay has taken
    crashes   \* senders dead so far

notes == <<note, sender, reached, crashes>>

Sender == Author \cup Run
NoNote == [status |-> "none"]
NotSending == [at |-> "idle"]

\* next_attempt_at: never set, still to come, or past.
Row == [status : {"pending", "sent", "failed", "abandoned"},
        attempts : Nat, next : {"never", "later", "now"}, old : BOOLEAN]

Becomes(s, what) == sender' = [sender EXCEPT ![s] = what]

\* What is left of a run's batch: each row with the attempts read off it.
Carry(s, batch) == IF batch = {} THEN NotSending ELSE [at |-> "batch", batch |-> batch]

NotesInit ==
    /\ note = [n \in Note |-> NoNote]
    /\ sender = [s \in Sender |-> NotSending]
    /\ reached = {} /\ crashes = 0

----------------------------------------------------------------------------
(* Sending *)

Written == [status |-> "pending", attempts |-> 0, next |-> "never", old |-> FALSE]

\* notify: the row first.
Record(s, n) ==
    /\ sender[s] = NotSending /\ s \in Author /\ note[n] = NoNote
    /\ note' = [note EXCEPT ![n] = Written]
    /\ Becomes(s, [at |-> "send", note |-> n, read |-> 0, batch |-> {}])
    /\ UNCHANGED <<reached, crashes>>

\* It never leaves: its channel is not configured, it has no template of the
\* provider's, its document cannot be fetched, or the relay refuses it.
NotRelayed(s) ==
    /\ sender[s].at = "send"
    /\ Becomes(s, [sender[s] EXCEPT !.at = "failed"])
    /\ UNCHANGED <<note, reached, crashes>>

\* The relay answers, or does not: it may have taken the message all the same.
Relayed(s) ==
    /\ sender[s].at = "send"
    /\ \E answer \in {"sent", "failed"} :
        /\ Becomes(s, [sender[s] EXCEPT !.at = answer])
        /\ reached' = reached \cup {sender[s].note}
    /\ UNCHANGED <<note, crashes>>

\* notify, and a run of the job
Send(s) == NotRelayed(s) \/ Relayed(s)

Sent(s, r) == [r EXCEPT !.status = "sent", !.attempts = @ + 1, !.next = IF s \in Run THEN "never" ELSE @]

\* Attempts are counted in the database, and the ceiling is looked for on the
\* attempts the run read; notify looks for none.
Settled(s) == s \in Run /\ sender[s].read + 1 >= MaxSends

Failed(s, r) ==
    [r EXCEPT !.status = IF Settled(s) THEN "abandoned" ELSE "failed",
              !.attempts = @ + 1,
              !.next = IF Settled(s) THEN "never" ELSE "later"]

MarkSent(s) ==
    /\ sender[s].at = "sent"
    /\ note' = [note EXCEPT ![sender[s].note] = Sent(s, @)]
    /\ Becomes(s, Carry(s, sender[s].batch))
    /\ UNCHANGED <<reached, crashes>>

MarkFailed(s) ==
    /\ sender[s].at = "failed"
    /\ note' = [note EXCEPT ![sender[s].note] = Failed(s, @)]
    /\ Becomes(s, Carry(s, sender[s].batch))
    /\ UNCHANGED <<reached, crashes>>

----------------------------------------------------------------------------
(* Trying again *)

\* Mutant of Due: what nothing lived to mark is never scheduled.
DueWhenScheduled(n) ==
    /\ note[n] # NoNote /\ note[n].status \in {"pending", "failed"}
    /\ note[n].attempts < MaxSends /\ note[n].next = "now"

\* dueNotifications
Due(n) ==
    /\ note[n] # NoNote /\ note[n].status \in {"pending", "failed"}
    /\ note[n].attempts < MaxSends
    /\ note[n].next = "now" \/ (note[n].next = "never" /\ note[n].old)

\* retryDueNotifications reads what is due once, and works through it.
StartRun(s) ==
    /\ s \in Run /\ sender[s] = NotSending
    /\ \E n \in Note : Due(n)
    /\ Becomes(s, [at |-> "batch", batch |-> {[note |-> n, read |-> note[n].attempts] : n \in {n \in Note : Due(n)}}])
    /\ UNCHANGED <<note, reached, crashes>>

Take(s) ==
    /\ sender[s].at = "batch"
    /\ \E item \in sender[s].batch :
        Becomes(s, [at |-> "send", note |-> item.note, read |-> item.read, batch |-> sender[s].batch \ {item}])
    /\ UNCHANGED <<note, reached, crashes>>

\* A process dies, and nothing is written of what it was doing.
Crash(s) ==
    /\ sender[s] # NotSending /\ crashes < Crashes
    /\ Becomes(s, NotSending)
    /\ crashes' = crashes + 1
    /\ UNCHANGED <<note, reached>>

\* A due time comes; PENDING_GRACE_MINUTES pass.
Passes(n) ==
    /\ note[n] # NoNote
    /\ \/ note[n].next = "later" /\ note' = [note EXCEPT ![n].next = "now"]
       \/ ~note[n].old /\ note' = [note EXCEPT ![n].old = TRUE]
    /\ UNCHANGED <<sender, reached, crashes>>

Works(s) == Send(s) \/ MarkSent(s) \/ MarkFailed(s) \/ Take(s)

NotesNext ==
    \/ \E s \in Sender : Works(s) \/ StartRun(s) \/ Crash(s)
    \/ \E s \in Sender, n \in Note : Record(s, n)
    \/ \E n \in Note : Passes(n)

\* Time passes; the job is run again and again; a sender that does not die
\* gets on with it.  Nothing is asked of the relay.
NotesFairness ==
    /\ \A n \in Note : WF_notes(Passes(n))
    /\ \A s \in Sender : WF_notes(Works(s))
    /\ \A s \in Run : WF_notes(StartRun(s))

NotesSpec == NotesInit /\ [][NotesNext]_notes /\ NotesFairness

----------------------------------------------------------------------------
(* Properties *)

\* Whatever dies between the row and the mark, a message that was recorded is
\* sent, or tried as many times as there are attempts (retry.ts).
NeverForgotten ==
    \A n \in Note :
        note[n] # NoNote ~> note[n].status = "sent" \/ (note[n] # NoNote /\ note[n].attempts >= MaxSends)
=============================================================================
