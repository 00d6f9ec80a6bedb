----------------------------- MODULE Statements -----------------------------
(***************************************************************************)
(* Statements sent to everyone (lib/ledger/member-statement.ts): an        *)
(* officer queues a run, and the statement-send job works through the      *)
(* holders of accounts in the order of their ids, a chunk at a time,       *)
(* recording each one it has dealt with.                                   *)
(*                                                                         *)
(* The job's own run (Jobs) stays open when its container stops or dies,   *)
(* and its checkpoint with it; one container has it at a time.             *)
(***************************************************************************)
EXTENDS Integers, Sequences, FiniteSets, FiniteSetsExt

CONSTANTS
    HolderId,       \* ids of members and customers
    FirstHolders,   \* those with an account at first
    HoldersAChunk,
    MaxStatements,  \* bound: runs queued
    MaxInterrupts   \* bound: errors and deaths

ASSUME HolderAssumption == HolderId \subseteq Nat \ {0} /\ FirstHolders \subseteq HolderId
ASSUME FiniteHolders == IsFiniteSet(HolderId)
ASSUME ChunkAssumption == HoldersAChunk \in Nat \ {0} /\ MaxStatements \in Nat

VARIABLES
    holds,        \* ids with an account that is not closed
    owner,        \* whose id it is
    statementRun, \* statement_run, by requested_at
    item,         \* statement_run_item: a run and a holder
    sends,        \* how many statements of the last run went to each person
    sending,       \* the job: where it is, and what it has in memory
    checkpoint,   \* of the job's run, while that is open
    interrupts

statements == <<holds, owner, statementRun, item, sends, sending, checkpoint, interrupts>>

Nobody == 0
NoCheckpoint == [run |-> 0, last |-> 0]
Asleep == [at |-> "off", run |-> 0, last |-> 0, chunk |-> {}]
NoneSent == [p \in HolderId |-> 0]

StatementsInit ==
    /\ holds = FirstHolders
    /\ owner = [h \in HolderId |-> IF h \in FirstHolders THEN h ELSE Nobody]
    /\ statementRun = <<>>
    /\ item = {}
    /\ sends = NoneSent
    /\ sending = Asleep
    /\ checkpoint = NoCheckpoint
    /\ interrupts = 0

OpenStatements == {r \in DOMAIN statementRun : statementRun[r].status # "done"}

----------------------------------------------------------------------------
(* The office                                                              *)

\* One run open at a time: the unique index says so.
QueueStatementRun ==
    /\ OpenStatements = {} /\ Len(statementRun) < MaxStatements
    /\ statementRun' = Append(statementRun, [status |-> "queued", due |-> holds])
    /\ sends' = NoneSent
    /\ UNCHANGED <<holds, owner, item, sending, checkpoint, interrupts>>

\* Somebody's first account, under an id from anywhere in the order.
OpenFirstAccount(h) ==
    /\ owner[h] = Nobody
    /\ holds' = holds \cup {h} /\ owner' = [owner EXCEPT ![h] = h]
    /\ UNCHANGED <<statementRun, item, sends, sending, checkpoint, interrupts>>

CloseLastAccount(h) ==
    /\ h \in holds
    /\ holds' = holds \ {h}
    /\ UNCHANGED <<owner, statementRun, item, sends, sending, checkpoint, interrupts>>

\* A customer becomes a member, with an id of their own and the accounts.
ConvertHolder(customer, member) ==
    /\ customer \in holds /\ owner[member] = Nobody
    /\ holds' = (holds \ {customer}) \cup {member}
    /\ owner' = [owner EXCEPT ![member] = owner[customer]]
    /\ UNCHANGED <<statementRun, item, sends, sending, checkpoint, interrupts>>

----------------------------------------------------------------------------
(* processStatementRuns                                                    *)

\* Mutant of Resumes: whichever run it was saved for.
ResumesAny(r) == checkpoint.last

\* Where to go on from: a checkpoint of another run says nothing of this one.
Resumes(r) == IF checkpoint.run = r THEN checkpoint.last ELSE 0

StartSending ==
    /\ sending.at = "off"
    /\ \E r \in OpenStatements :
       /\ statementRun' = [statementRun EXCEPT ![r].status = "sending"]
       /\ sending' = [Asleep EXCEPT !.at = "between", !.run = r, !.last = Resumes(r)]
    /\ UNCHANGED <<holds, owner, item, sends, checkpoint, interrupts>>

\* Mutant of Waiting: those after the checkpoint, dealt with or not.
WaitingAll(r, last) == {h \in holds : h > last}

\* The next holders in id order that the run has not dealt with.
Waiting(r, last) == {h \in holds : h > last /\ <<r, h>> \notin item}
NextHolders(r, last) ==
    {h \in Waiting(r, last) : Cardinality({o \in Waiting(r, last) : o < h}) < HoldersAChunk}

ReadHolders ==
    /\ sending.at = "between"
    /\ LET chunk == NextHolders(sending.run, sending.last) IN
       sending' = [sending EXCEPT !.at = IF chunk = {} THEN "through" ELSE "send", !.chunk = chunk,
                                !.last = IF chunk = {} THEN @ ELSE Max(chunk)]
    /\ UNCHANGED <<holds, owner, statementRun, item, sends, checkpoint, interrupts>>

\* sendStatement throws nothing: no contact, no account any more, or no
\* message that went is an outcome as well.
SendStatement ==
    /\ sending.at = "send"
    /\ sending' = [sending EXCEPT !.at = "sent"]
    /\ LET h == Min(sending.chunk) IN
       \/ h \in holds /\ sends' = [sends EXCEPT ![owner[h]] = @ + 1]
       \/ UNCHANGED sends
    /\ UNCHANGED <<holds, owner, statementRun, item, checkpoint, interrupts>>

RecordDealt ==
    /\ sending.at = "sent"
    /\ LET h == Min(sending.chunk) IN
       /\ item' = item \cup {<<sending.run, h>>}
       /\ sending' = [sending EXCEPT !.chunk = @ \ {h},
                                   !.at = IF sending.chunk = {h} THEN "dealt" ELSE "send"]
    /\ UNCHANGED <<holds, owner, statementRun, sends, checkpoint, interrupts>>

SaveCheckpoint ==
    /\ sending.at = "dealt"
    /\ checkpoint' = [run |-> sending.run, last |-> sending.last]
    /\ sending' = [sending EXCEPT !.at = "between"]
    /\ UNCHANGED <<holds, owner, statementRun, item, sends, interrupts>>

\* The run is done; the job's own stays open if it was told to stop meanwhile.
FinishStatements ==
    /\ sending.at = "through"
    /\ statementRun' = [statementRun EXCEPT ![sending.run].status = "done"]
    /\ sending' = Asleep
    /\ checkpoint' \in {checkpoint, NoCheckpoint}
    /\ UNCHANGED <<holds, owner, item, sends, interrupts>>

\* Told to stop, it does so between chunks.
StopBetweenChunks ==
    /\ sending.at = "between"
    /\ sending' = Asleep
    /\ UNCHANGED <<holds, owner, statementRun, item, sends, checkpoint, interrupts>>

\* The container dies, and another resumes the job's run; or a statement
\* fails, and with it that run: the next one begins without a checkpoint.
Interrupted ==
    /\ sending.at # "off"
    /\ interrupts < MaxInterrupts /\ interrupts' = interrupts + 1
    /\ sending' = Asleep
    /\ checkpoint' \in {checkpoint, NoCheckpoint}
    /\ UNCHANGED <<holds, owner, statementRun, item, sends>>

StatementsNext ==
    \/ QueueStatementRun
    \/ \E h \in HolderId : OpenFirstAccount(h) \/ CloseLastAccount(h)
                           \/ \E m \in HolderId : ConvertHolder(h, m)
    \/ StartSending \/ ReadHolders \/ SendStatement \/ RecordDealt \/ SaveCheckpoint
    \/ FinishStatements \/ StopBetweenChunks \/ Interrupted

----------------------------------------------------------------------------

\* "Ask for every holder to be sent their statement" (queueStatementRun):
\* whatever stopped, failed or died, and whichever run was worked before, a
\* run that is done has dealt with everyone who was a holder when it was asked
\* for and still is, under the same id.
EveryHolderDealtWith ==
    \A r \in DOMAIN statementRun : statementRun[r].status = "done" =>
        \A h \in statementRun[r].due \cap holds : <<r, h>> \in item

\* A statement goes once to each id that a person holds accounts under, and
\* again only for an interruption, to one person each: not to a whole chunk,
\* and not from the beginning when the checkpoint is lost.
Repeated(p) ==
    LET ids == Cardinality({h \in HolderId : owner[h] = p})
    IN  IF sends[p] > ids THEN sends[p] - ids ELSE 0

RepeatsCostOne == MapThenSumSet(Repeated, HolderId) <= interrupts
=============================================================================
