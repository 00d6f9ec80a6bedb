-------------------------------- MODULE Feed --------------------------------
(***************************************************************************)
(* The stream of financial events (emitFinancialEvent and                  *)
(* financialEventsSince in lib/payments/payments.ts; the endpoint          *)
(* financial-events): each payment, refund and void adds one in its own    *)
(* database transaction, numbered as it is added, and a consumer asks for  *)
(* what comes after the last number it has processed.                      *)
(***************************************************************************)
EXTENDS Integers, FiniteSets

CONSTANTS
    LastEvent, \* bound: numbers drawn
    Limit      \* events to an answer

VARIABLES
    event,   \* financial_event, by sequence_no
    ordinal, \* the last number drawn
    consumer \* the checkpoint, the answer in hand, and what was processed

feed == <<event, ordinal, consumer>>

Ordinal == 1..LastEvent

FeedInit ==
    /\ event = [n \in Ordinal |-> "none"]
    /\ ordinal = 0
    /\ consumer = [after |-> 0, answer |-> {}, processed |-> {}]

\* Within the transaction of the payment; the number is given at once.
EmitFinancialEvent ==
    /\ ordinal < LastEvent
    /\ ordinal' = ordinal + 1
    /\ event' = [event EXCEPT ![ordinal'] = "open"]
    /\ UNCHANGED consumer

PaymentCommits(n) ==
    /\ event[n] = "open"
    /\ event' = [event EXCEPT ![n] = "committed"]
    /\ UNCHANGED <<ordinal, consumer>>

PaymentRollsBack(n) ==
    /\ event[n] = "open"
    /\ event' = [event EXCEPT ![n] = "lost"]
    /\ UNCHANGED <<ordinal, consumer>>

Committed == {n \in Ordinal : event[n] = "committed"}

\* The events after a number, in order, as many as an answer holds.
FinancialEventsSince(after) ==
    {n \in Committed : n > after /\ Cardinality({e \in Committed : after < e /\ e < n}) < Limit}

Ask ==
    /\ consumer.answer = {}
    /\ consumer' = [consumer EXCEPT !.answer = FinancialEventsSince(consumer.after)]
    /\ UNCHANGED <<event, ordinal>>

\* "Record the highest sequenceNo you have processed and pass it back."
Process ==
    /\ consumer.answer # {}
    /\ consumer' = [after |-> CHOOSE n \in consumer.answer : \A e \in consumer.answer : e <= n,
                    answer |-> {}, processed |-> consumer.processed \cup consumer.answer]
    /\ UNCHANGED <<event, ordinal>>

\* The answer does not arrive, or the consumer dies with it in hand.
LoseAnswer ==
    /\ consumer.answer # {}
    /\ consumer' = [consumer EXCEPT !.answer = {}]
    /\ UNCHANGED <<event, ordinal>>

FeedNext ==
    \/ EmitFinancialEvent \/ Ask \/ Process \/ LoseAnswer
    \/ \E n \in Ordinal : PaymentCommits(n) \/ PaymentRollsBack(n)

FeedSpec == FeedInit /\ [][FeedNext]_feed

-----------------------------------------------------------------------------

\* "asking for everything after that ordinal is the whole protocol"
\* (financial-events.ts): an event the checkpoint has passed was processed.
EventsAllSeen == \A n \in Committed : n <= consumer.after => n \in consumer.processed
=============================================================================
