------------------------------ MODULE Showcase ------------------------------
(***************************************************************************)
(* What the app's home screen shows (lib/config/outlets.ts, promotions.ts; *)
(* lib/notifications/app-events.ts): partner outlets and promotion cards,  *)
(* and the word that goes to every phone when one appears.                 *)
(*                                                                         *)
(* The row is held while it is read and written; the word goes once that   *)
(* has committed, about the row as it then is.                             *)
(***************************************************************************)
EXTENDS Integers, FiniteSets

CONSTANTS
    Outlet,
    Promotion,
    Editor,   \* requests of administrators
    LastDay   \* bound

ASSUME DayAssumption == LastDay \in Nat

VARIABLES
    card,     \* card_outlet and app_promotion
    editor,   \* requests under way
    today,
    told,     \* how often every phone heard of each
    appeared  \* how often an edit made each appear

showcase == <<card, editor, today, told, appeared>>

Card == Outlet \cup Promotion
Day == 0..LastDay
Gone == [there |-> FALSE]
Idling == [does |-> "nothing"]

\* What the page accepts, checked and tidied.
OutletForm == [there : {TRUE}, active : BOOLEAN, partner : BOOLEAN]
PromotionForm ==
    {f \in [there : {TRUE}, active : BOOLEAN, starts : Day, ends : Day] : f.starts <= f.ends}
FormOf(c) == IF c \in Outlet THEN OutletForm ELSE PromotionForm

ShowcaseInit ==
    /\ card = [c \in Card |-> Gone]
    /\ editor = [q \in Editor |-> Idling]
    /\ today = 0
    /\ told = [c \in Card |-> 0]
    /\ appeared = [c \in Card |-> 0]

\* What the phones are told of: a partner, and a card inside its dates.
Shows(c, row) ==
    /\ row.there /\ row.active
    /\ IF c \in Outlet THEN row.partner ELSE row.starts <= today /\ today <= row.ends

Held(c) == \E q \in Editor : editor[q].does = "edit" /\ editor[q].card = c

\* The row as it is from now on.
RowBecomes(c, row) ==
    /\ card' = [card EXCEPT ![c] = row]
    /\ appeared' = [appeared EXCEPT ![c] = IF Shows(c, row) /\ ~Shows(c, card[c]) THEN @ + 1 ELSE @]

\* An outlet is announced for what was written; a card for what is on file.
Announcing(c, was, row) == ~was /\ (c \in Outlet => Shows(c, row))

Then(q, c, was, row) ==
    editor' = [editor EXCEPT ![q] = IF Announcing(c, was, row) THEN [does |-> "announce", card |-> c]
                                                                ELSE Idling]

CreateCard(q, c, form) ==
    /\ editor[q] = Idling /\ card[c] = Gone
    /\ RowBecomes(c, form)
    /\ Then(q, c, FALSE, form)
    /\ UNCHANGED <<today, told>>

\* Mutant of Free: the row is read, and not held.
FreeToRead(c) == TRUE

\* select ... for update waits for whoever holds the row.
Free(c) == ~Held(c)

BeginUpdateCard(q, c, form) ==
    /\ editor[q] = Idling /\ card[c].there /\ Free(c)
    /\ editor' = [editor EXCEPT ![q] = [does |-> "edit", card |-> c, form |-> form,
                                        was |-> Shows(c, card[c])]]
    /\ UNCHANGED <<card, today, told, appeared>>

CommitUpdateCard(q) ==
    /\ editor[q].does = "edit"
    /\ RowBecomes(editor[q].card, editor[q].form)
    /\ Then(q, editor[q].card, editor[q].was, editor[q].form)
    /\ UNCHANGED <<today, told>>

RollBackUpdate(q) ==
    /\ editor[q].does = "edit"
    /\ editor' = [editor EXCEPT ![q] = Idling]
    /\ UNCHANGED <<card, today, told, appeared>>

DeleteCard(c) ==
    /\ card[c].there /\ ~Held(c)
    /\ card' = [card EXCEPT ![c] = Gone]
    /\ UNCHANGED <<editor, today, told, appeared>>

\* announcePartner, announceIfLive: the row is read again.
Announce(q) ==
    /\ editor[q].does = "announce"
    /\ LET c == editor[q].card IN
       told' = [told EXCEPT ![c] = IF card[c].there /\ (c \in Promotion => Shows(c, card[c]))
                                   THEN @ + 1 ELSE @]
    /\ editor' = [editor EXCEPT ![q] = Idling]
    /\ UNCHANGED <<card, today, appeared>>

\* The process dies, or the word cannot be queued: the row stays.
Unannounced(q) ==
    /\ editor[q].does = "announce"
    /\ editor' = [editor EXCEPT ![q] = Idling]
    /\ UNCHANGED <<card, today, told, appeared>>

\* Nothing watches the calendar.
DayPasses ==
    /\ today < LastDay /\ today' = today + 1
    /\ UNCHANGED <<card, editor, told, appeared>>

ShowcaseNext ==
    \/ \E q \in Editor : \/ CommitUpdateCard(q) \/ RollBackUpdate(q) \/ Announce(q) \/ Unannounced(q)
                         \/ \E c \in Card : \E form \in FormOf(c) :
                                CreateCard(q, c, form) \/ BeginUpdateCard(q, c, form)
    \/ \E c \in Card : DeleteCard(c)
    \/ DayPasses

-----------------------------------------------------------------------------

\* "Not every edit to one: the phones hear once" (outlets.ts): however edits
\* overlap, the phones hear of a partner no oftener than one appeared.
PartnersToldOnce == \A c \in Outlet : told[c] <= appeared[c]
=============================================================================
