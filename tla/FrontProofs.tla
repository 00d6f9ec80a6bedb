----------------------------- MODULE FrontProofs -----------------------------
(***************************************************************************)
(* What members and clients may rely on, whatever they send and however    *)
(* many they are: theorems about the app's writes (Api), its sign-in       *)
(* (Identity), what its screen announces (Showcase), and what their        *)
(* applications stand for and make (Admission).                            *)
(***************************************************************************)
EXTENDS Admission, Identity, Showcase, Api, FiniteSetTheorems, TLAPS

ApiSpec == ApiInit /\ [][ApiNext]_api

-----------------------------------------------------------------------------
(* A request on its way: the forms it takes                                *)

Words == {"done", "later", "refused", "conflict"}
Wished == {"arrives", "eligible", "lookup", "judged", "waits", "posts"}
Asked == {"guess", "presents", "presented"}

\* Unsent; a machine's, which asks for nothing; a client's; one that has its
\* answer. Any of them may be over.
Forms ==
    [at : {"unsent"}] \cup [at : Asked \cup {"over"}]
        \cup [at : Wished \cup {"over"}, wish : Wish]
        \cup [at : {"answers", "over"}, wish : Wish, what : Words]

Rows == [there : {FALSE}] \cup [there : {TRUE}, by : Channel, key : Key, print : Fingerprint]

WishesTyped == wish \in [Wish -> [by : Channel, key : Key, asks : Fingerprint, told : Words \cup {"nothing"}]]
AttemptsTyped == attempt \in [Attempt -> Forms]
RowsTyped == row \in [Attempt -> Rows]

\* The row b is there in the name, under the key and for what w asks.
Serves(b, w) ==
    /\ row[b].there /\ row[b].by = wish[w].by /\ row[b].key = wish[w].key /\ row[b].print = wish[w].asks

\* A key is one row's.
KeysOnce ==
    \A a, b \in Attempt :
        (row[a].there /\ row[b].there /\ row[a].by = row[b].by /\ row[a].key = row[b].key) => a = b

\* Nothing is called done, on the way or at the client's, without its row.
AnswersTrue ==
    \A a \in Attempt :
        (attempt[a].at = "answers" /\ attempt[a].what = "done") => \E b \in Attempt : Serves(b, attempt[a].wish)
WordsTrue == \A w \in Wish : wish[w].told = "done" => \E b \in Attempt : Serves(b, w)

\* A request that recorded its row has nothing left but its answer.
OneRowEach == \A a \in Attempt : row[a].there => attempt[a].at \in {"answers", "over"}

WritesInv == WishesTyped /\ AttemptsTyped /\ RowsTyped /\ KeysOnce /\ OneRowEach /\ AnswersTrue /\ WordsTrue

-----------------------------------------------------------------------------
(* Steps that record nothing                                               *)

\* What becomes of one request while no row and no client changes.
Proceeds(a, form) == attempt' = [attempt EXCEPT ![a] = form] /\ UNCHANGED <<wish, row>>

\* A request goes on in a form that promises nothing it cannot show.
LEMMA GoingKeeps ==
    ASSUME WritesInv, NEW a \in Attempt, NEW form \in Forms, Proceeds(a, form),
           row[a].there => form.at \in {"answers", "over"},
           (form.at = "answers" /\ form.what = "done") => \E b \in Attempt : Serves(b, form.wish)
    PROVE  WritesInv'
<1>1. attempt' \in [Attempt -> Forms] /\ attempt'[a] = form /\ \A b \in Attempt \ {a} : attempt'[b] = attempt[b]
  BY DEF WritesInv, AttemptsTyped, Proceeds
<1>2. WishesTyped' /\ RowsTyped' /\ KeysOnce' /\ WordsTrue'
  BY DEF WritesInv, WishesTyped, RowsTyped, KeysOnce, WordsTrue, Serves, Proceeds
<1>3. ASSUME NEW c \in Attempt, NEW w, w = attempt'[c].wish, attempt'[c].at = "answers", attempt'[c].what = "done"
      PROVE  \E b \in Attempt : Serves(b, w)'
  <2>1. \E b \in Attempt : Serves(b, w)
    BY <1>1, <1>3 DEF WritesInv, AnswersTrue
  <2> QED BY <2>1 DEF Serves, Proceeds
<1>4. AnswersTrue'
  BY <1>3, Zenon DEF AnswersTrue
<1>5. OneRowEach'
  BY <1>1 DEF WritesInv, OneRowEach, Proceeds
<1> QED BY <1>1, <1>2, <1>4, <1>5 DEF WritesInv, AttemptsTyped

\* A request's form with another place on its way is such a form.
LEMMA PlaceForms ==
    ASSUME WritesInv, NEW a \in Attempt, NEW at,
           \/ attempt[a].at \in Wished /\ at \in Wished \cup {"over"}
           \/ attempt[a].at \in Asked /\ at \in Asked \cup {"over"}
           \/ attempt[a].at = "answers" /\ at = "over"
    PROVE  /\ [attempt[a] EXCEPT !.at = at] \in Forms
           /\ [attempt[a] EXCEPT !.at = at].at = at /\ at # "answers"
<1> USE DEF Wished, Asked
<1>1. attempt[a] \in Forms
  BY DEF WritesInv, AttemptsTyped
<1>2. CASE attempt[a] \in [at : {"unsent"}]
  BY <1>2
<1>3. CASE attempt[a] \in [at : Asked \cup {"over"}]
  <2>1. [attempt[a] EXCEPT !.at = at] = [at |-> at]
    BY <1>3
  <2> QED BY <1>3, <2>1 DEF Forms
<1>4. CASE attempt[a] \in [at : Wished \cup {"over"}, wish : Wish]
  <2>1. [attempt[a] EXCEPT !.at = at] = [at |-> at, wish |-> attempt[a].wish]
    BY <1>4
  <2> QED BY <1>4, <2>1 DEF Forms
<1>5. CASE attempt[a] \in [at : {"answers", "over"}, wish : Wish, what : Words]
  <2>1. [attempt[a] EXCEPT !.at = at] = [at |-> at, wish |-> attempt[a].wish, what |-> attempt[a].what]
    BY <1>5
  <2> QED BY <1>5, <2>1 DEF Forms
<1> QED BY <1>1, <1>2, <1>3, <1>4, <1>5 DEF Forms

\* A request goes on to another place.
LEMMA ContinuingKeeps ==
    ASSUME WritesInv, NEW a \in Attempt, NEW at, Continues(a, at), UNCHANGED <<wish, row>>,
           \/ attempt[a].at \in Wished /\ at \in Wished \cup {"over"}
           \/ attempt[a].at \in Asked /\ at \in Asked \cup {"over"}
           \/ attempt[a].at = "answers" /\ at = "over"
    PROVE  WritesInv'
<1> DEFINE form == [attempt[a] EXCEPT !.at = at]
<1>1. form \in Forms /\ form.at # "answers"
  BY PlaceForms
<1>2. Proceeds(a, form)
  BY DEF Proceeds, Continues
<1>3. row[a].there => form.at \in {"answers", "over"}
  BY PlaceForms DEF WritesInv, OneRowEach, Wished, Asked
<1> HIDE DEF form
<1> QED BY <1>1, <1>2, <1>3, GoingKeeps

\* Whoever asks for something has a wish.
LEMMA AskersWish ==
    ASSUME WritesInv, NEW a \in Attempt, attempt[a].at \in Wished \cup {"answers"}
    PROVE  attempt[a].wish \in Wish
BY DEF WritesInv, AttemptsTyped, Forms, Wished, Asked

\* A request is answered; "done" only of a row that serves it.
LEMMA AnsweringKeeps ==
    ASSUME WritesInv, NEW a \in Attempt, NEW what \in Words, Answers(a, what), UNCHANGED <<wish, row>>,
           attempt[a].at \in Wished,
           what = "done" => \E b \in Attempt : Serves(b, attempt[a].wish)
    PROVE  WritesInv'
<1> DEFINE form == [at |-> "answers", wish |-> attempt[a].wish, what |-> what]
<1>1. form \in Forms
  BY AskersWish DEF Forms
<1>2. Proceeds(a, form)
  BY DEF Proceeds, Answers
<1>3. (form.at = "answers" /\ form.what = "done") => \E b \in Attempt : Serves(b, form.wish)
  OBVIOUS
<1>4. row[a].there => form.at \in {"answers", "over"}
  OBVIOUS
<1> HIDE DEF form
<1> QED BY <1>1, <1>2, <1>3, <1>4, GoingKeeps

-----------------------------------------------------------------------------
(* The row                                                                 *)

\* The row is written under a key no other row has.
LEMMA RecordingKeeps ==
    ASSUME WritesInv, NEW a \in Attempt, RecordTransaction(a)
    PROVE  WritesInv'
<1>0. PICK w \in Wish : w = attempt[a].wish
  BY AskersWish DEF RecordTransaction, Wished
<1> DEFINE new == [there |-> TRUE, by |-> wish[w].by, key |-> wish[w].key, print |-> wish[w].asks]
           form == [at |-> "answers", wish |-> w, what |-> "done"]
<1>1. ~row[a].there
  BY DEF RecordTransaction, WritesInv, OneRowEach
<1>2. /\ row' = [row EXCEPT ![a] = new] /\ UNCHANGED wish
      /\ attempt' = [attempt EXCEPT ![a] = form]
      /\ \A b \in Attempt : ~(row[b].there /\ row[b].by = wish[w].by /\ row[b].key = wish[w].key)
  BY <1>0 DEF RecordTransaction, Answers, Of, KeyTaken, Recorded
<1>3. new \in Rows /\ form \in Forms /\ form.at = "answers" /\ form.wish = w
  BY <1>1 DEF WritesInv, WishesTyped, Rows, Forms, Words
<1>4. /\ row' \in [Attempt -> Rows] /\ row'[a] = new
      /\ \A b \in Attempt \ {a} : row'[b] = row[b]
      /\ attempt' \in [Attempt -> Forms] /\ attempt'[a] = form
      /\ \A b \in Attempt \ {a} : attempt'[b] = attempt[b]
  BY <1>2, <1>3 DEF WritesInv, RowsTyped, AttemptsTyped
<1>5. new.there /\ new.by = wish[w].by /\ new.key = wish[w].key /\ new.print = wish[w].asks
  OBVIOUS
<1> HIDE DEF new, form
<1>6. WishesTyped' /\ RowsTyped' /\ AttemptsTyped'
  BY <1>2, <1>4 DEF WritesInv, WishesTyped, RowsTyped, AttemptsTyped
<1>7. KeysOnce'
  BY <1>2, <1>4, <1>5 DEF WritesInv, KeysOnce
<1>8. OneRowEach'
  BY <1>3, <1>4 DEF WritesInv, OneRowEach
<1>9. ASSUME NEW v \in Wish, NEW b \in Attempt, Serves(b, v)
      PROVE  Serves(b, v)'
  BY <1>1, <1>2, <1>4, <1>9 DEF Serves
<1>10. Serves(a, w)'
  BY <1>2, <1>4, <1>5 DEF Serves
<1>11. ASSUME NEW c \in Attempt, NEW v, v = attempt'[c].wish, attempt'[c].at = "answers", attempt'[c].what = "done"
       PROVE  \E b \in Attempt : Serves(b, v)'
  <2>1. CASE c = a
    BY <1>3, <1>4, <1>10, <1>11, <2>1
  <2>2. CASE c # a
    <3>1. \E b \in Attempt : Serves(b, v)
      BY <1>4, <1>11, <2>2 DEF WritesInv, AnswersTrue
    <3>2. v \in Wish
      BY <1>4, <1>11, <2>2, AskersWish
    <3> QED BY <1>9, <3>1, <3>2
  <2> QED BY <2>1, <2>2
<1>12. AnswersTrue'
  BY <1>11, Zenon DEF AnswersTrue
<1>13. WordsTrue'
  BY <1>2, <1>9 DEF WritesInv, WordsTrue
<1> QED BY <1>6, <1>7, <1>8, <1>12, <1>13 DEF WritesInv

\* What the client is told, when it is told.
LEMMA TellingKeeps ==
    ASSUME WritesInv, NEW a \in Attempt, Answer(a)
    PROVE  WritesInv'
<1> DEFINE w == attempt[a].wish
           what == attempt[a].what
           heard == IF Unanswered(w) THEN what ELSE wish[w].told
           form == [attempt[a] EXCEPT !.at = "over"]
<1>1. w \in Wish /\ what \in Words /\ attempt[a].at = "answers"
  BY DEF Answer, WritesInv, AttemptsTyped, Forms, Wished, Asked
<1>2. /\ wish' = [wish EXCEPT ![w].told = heard] /\ UNCHANGED row
      /\ attempt' = [attempt EXCEPT ![a] = form]
  BY DEF Answer, Told, Continues, Still
<1>3. heard \in Words \cup {"nothing"}
  BY <1>1 DEF WritesInv, WishesTyped
<1>4. form \in Forms /\ form.at = "over"
  BY <1>1, PlaceForms
<1>5. heard = "done" => \E b \in Attempt : Serves(b, w)
  BY <1>1 DEF WritesInv, AnswersTrue, WordsTrue
<1> HIDE DEF w, what, heard, form
<1>6. /\ wish' \in [Wish -> [by : Channel, key : Key, asks : Fingerprint, told : Words \cup {"nothing"}]]
      /\ wish'[w].told = heard /\ \A v \in Wish \ {w} : wish'[v] = wish[v]
      /\ \A v \in Wish : wish'[v].by = wish[v].by /\ wish'[v].key = wish[v].key /\ wish'[v].asks = wish[v].asks
  BY <1>1, <1>2, <1>3 DEF WritesInv, WishesTyped
<1>7. /\ attempt' \in [Attempt -> Forms] /\ attempt'[a] = form
      /\ \A b \in Attempt \ {a} : attempt'[b] = attempt[b]
  BY <1>2, <1>4 DEF WritesInv, AttemptsTyped
<1>8. WishesTyped' /\ AttemptsTyped' /\ RowsTyped' /\ KeysOnce'
  BY <1>2, <1>6, <1>7 DEF WritesInv, WishesTyped, AttemptsTyped, RowsTyped, KeysOnce
<1>9. OneRowEach'
  BY <1>2, <1>4, <1>7 DEF WritesInv, OneRowEach
<1>10. ASSUME NEW v \in Wish, NEW b \in Attempt, Serves(b, v)
       PROVE  Serves(b, v)'
  BY <1>2, <1>6, <1>10 DEF Serves
<1>11. ASSUME NEW c \in Attempt, NEW v, v = attempt'[c].wish, attempt'[c].at = "answers", attempt'[c].what = "done"
       PROVE  \E b \in Attempt : Serves(b, v)'
  <2>1. c # a
    BY <1>4, <1>7, <1>11
  <2>2. v \in Wish /\ \E b \in Attempt : Serves(b, v)
    BY <1>7, <1>11, <2>1, AskersWish DEF WritesInv, AnswersTrue
  <2> QED BY <1>10, <2>2
<1>12. AnswersTrue'
  BY <1>11, Zenon DEF AnswersTrue
<1>13. WordsTrue'
  <2>1. ASSUME NEW v \in Wish, wish'[v].told = "done" PROVE \E b \in Attempt : Serves(b, v)
    BY <1>5, <1>6, <2>1 DEF WritesInv, WordsTrue
  <2> QED BY <1>10, <2>1 DEF WordsTrue
<1> QED BY <1>8, <1>9, <1>12, <1>13 DEF WritesInv

-----------------------------------------------------------------------------
(* Every step                                                              *)

\* The wrappers let a request on, or turn it away.
LEMMA WrappersKeep ==
    ASSUME WritesInv, NEW a \in Attempt,
           StaffEndpoint(a) \/ MemberEndpoint(a) \/ IntegrationEndpoint(a) \/ ServeMachine(a) \/ CredentialForToken(a)
    PROVE  WritesInv'
<1> USE DEF Wished, Asked
<1>1. CASE StaffEndpoint(a)
  <2>1. Continues(a, "lookup") \/ Answers(a, "later")
    BY <1>1 DEF StaffEndpoint, Within
  <2> QED BY <1>1, <2>1, ContinuingKeeps, AnsweringKeeps DEF StaffEndpoint, Words
<1>2. CASE MemberEndpoint(a)
  <2>1. Continues(a, "eligible") \/ Answers(a, "later")
    BY <1>2 DEF MemberEndpoint, Within
  <2> QED BY <1>2, <2>1, ContinuingKeeps, AnsweringKeeps DEF MemberEndpoint, Words
<1>3. CASE IntegrationEndpoint(a)
  <2>1. Continues(a, "presents") \/ Continues(a, "over")
    BY <1>3 DEF IntegrationEndpoint, Within
  <2> QED BY <1>3, <2>1, ContinuingKeeps DEF IntegrationEndpoint
<1>4. CASE ServeMachine(a)
  <2>1. Continues(a, "over")
    BY <1>4 DEF ServeMachine, Within
  <2> QED BY <1>4, <2>1, ContinuingKeeps DEF ServeMachine
<1>5. CASE CredentialForToken(a)
  <2>1. Continues(a, "presented") \/ Continues(a, "over")
    BY <1>5 DEF CredentialForToken
  <2> QED BY <1>5, <2>1, ContinuingKeeps DEF CredentialForToken, Still
<1> QED BY <1>1, <1>2, <1>3, <1>4, <1>5

\* A request leaves a client, or a machine.
LEMMA SendingKeeps ==
    ASSUME WritesInv, NEW a \in Attempt, SendMachine(a) \/ \E w \in Wish : Request(a, w)
    PROVE  WritesInv'
<1>1. ~row[a].there
  BY DEF WritesInv, OneRowEach, SendMachine, Request, NoAttempt
<1>2. CASE SendMachine(a)
  <2> DEFINE form == [at |-> "guess"]
  <2>1. form \in Forms /\ form.at = "guess" /\ Proceeds(a, form)
    BY <1>2 DEF SendMachine, Proceeds, Forms, Asked, Still
  <2> HIDE DEF form
  <2> QED BY <1>1, <2>1, GoingKeeps
<1>3. ASSUME NEW w \in Wish, Request(a, w) PROVE WritesInv'
  <2> DEFINE form == [at |-> "arrives", wish |-> w]
  <2>1. form \in Forms /\ form.at = "arrives" /\ Proceeds(a, form)
    BY <1>3 DEF Request, Proceeds, Forms, Wished, Still
  <2> HIDE DEF form
  <2> QED BY <1>1, <2>1, GoingKeeps
<1> QED BY <1>2, <1>3

\* A request is looked up by its key, and answered at once of a row like it.
LEMMA LookingUpKeeps ==
    ASSUME WritesInv, NEW a \in Attempt, ExistingForKey(a)
    PROVE  WritesInv'
<1> USE DEF Wished, Words
<1>1. UNCHANGED <<wish, row>> /\ attempt[a].at = "lookup"
  BY DEF ExistingForKey, Still
<1>2. CASE Continues(a, "judged")
  BY <1>1, <1>2, ContinuingKeeps
<1>3. ASSUME NEW b \in Recorded(a), Answers(a, IF Replays(b, a) THEN "done" ELSE "conflict")
      PROVE  WritesInv'
  <2>1. Replays(b, a) => Serves(b, attempt[a].wish)
    BY <1>3 DEF Recorded, Replays, Serves, Of
  <2>2. b \in Attempt
    BY <1>3 DEF Recorded
  <2> DEFINE what == IF Replays(b, a) THEN "done" ELSE "conflict"
  <2>3. what \in Words /\ (what = "done" => Replays(b, a)) /\ Answers(a, what)
    BY <1>3
  <2> HIDE DEF what
  <2> QED BY <1>1, <2>1, <2>2, <2>3, AnsweringKeeps
<1> QED BY <1>2, <1>3 DEF ExistingForKey

\* A request is judged, or another's row stops it.
LEMMA JudgingKeeps ==
    ASSUME WritesInv, NEW a \in Attempt, RequireEnabled(a) \/ Judge(a) \/ RollBack(a)
    PROVE  WritesInv'
<1> USE DEF Wished, Words
<1>1. CASE RequireEnabled(a)
  <2>1. Continues(a, "lookup") \/ Answers(a, "refused")
    BY <1>1 DEF RequireEnabled
  <2> QED BY <1>1, <2>1, ContinuingKeeps, AnsweringKeeps DEF RequireEnabled, Still
<1>2. CASE Judge(a)
  <2>1. Continues(a, "waits") \/ Continues(a, "posts") \/ Answers(a, "refused")
    BY <1>2 DEF Judge
  <2> QED BY <1>2, <2>1, ContinuingKeeps, AnsweringKeeps DEF Judge, Still
<1>3. CASE RollBack(a)
  <2> DEFINE what == IF KeyTaken(a) THEN "later" ELSE "refused"
  <2>1. Answers(a, what) /\ what \in Words /\ what # "done" /\ UNCHANGED <<wish, row>> /\ attempt[a].at \in Wished
    BY <1>3 DEF RollBack
  <2> HIDE DEF what
  <2> QED BY <2>1, AnsweringKeeps
<1> QED BY <1>1, <1>2, <1>3

\* A request whose answer is lost is over, wherever it was.
LEMMA LosingKeeps ==
    ASSUME WritesInv, NEW a \in Attempt, Lost(a)
    PROVE  WritesInv'
<1>1. attempt[a].at \in Wished \/ attempt[a].at \in Asked \/ attempt[a].at = "answers"
  BY DEF Lost, WritesInv, AttemptsTyped, Forms
<1> QED BY <1>1, ContinuingKeeps DEF Lost, Still

\* Every step of a client, of a request and of an administrator keeps it.
LEMMA WritesStep ==
    ASSUME WritesInv, [ApiNext]_api
    PROVE  WritesInv'
<1>1. ASSUME UNCHANGED <<wish, attempt, row>> PROVE WritesInv'
  BY <1>1 DEF WritesInv, WishesTyped, AttemptsTyped, RowsTyped, KeysOnce, OneRowEach, AnswersTrue, WordsTrue, Serves
<1>2. ASSUME NEW a \in Attempt,
             \/ Answer(a) \/ Lost(a)
             \/ StaffEndpoint(a) \/ MemberEndpoint(a) \/ IntegrationEndpoint(a)
             \/ CredentialForToken(a) \/ ServeMachine(a) \/ RequireEnabled(a)
             \/ ExistingForKey(a) \/ Judge(a) \/ RecordTransaction(a) \/ RollBack(a)
             \/ SendMachine(a) \/ \E w \in Wish : Request(a, w)
      PROVE  WritesInv'
  BY <1>2, TellingKeeps, LosingKeeps, WrappersKeep, LookingUpKeeps, JudgingKeeps, RecordingKeeps, SendingKeeps
<1>3. ASSUME NEW a \in Attempt, AllocateForPosting(a) PROVE WritesInv'
  BY <1>1, <1>3 DEF AllocateForPosting
<1>4. CASE RevokeCredential \/ WindowPasses \/ SetMemberOperations \/ UNCHANGED api
  BY <1>1, <1>4 DEF RevokeCredential, WindowPasses, SetMemberOperations, api
<1> QED BY <1>2, <1>3, <1>4 DEF ApiNext

\* Nothing has been sent.
LEMMA WritesStart ==
    ASSUME ApiInit
    PROVE  WritesInv
<1>1. NoAttempt \in Forms /\ NoAttempt.at = "unsent" /\ NoRow \in Rows /\ NoRow.there = FALSE
  BY DEF Forms, Rows, NoAttempt, NoRow
<1>2. WishesTyped /\ \A w \in Wish : wish[w].told = "nothing"
  BY DEF ApiInit, WishesTyped
<1> QED BY <1>1, <1>2 DEF ApiInit, WritesInv, AttemptsTyped, RowsTyped, KeysOnce, OneRowEach, AnswersTrue, WordsTrue

\* A set whose elements are all one has one at most.
LEMMA OneAtMost ==
    ASSUME NEW S, \A x, y \in S : x = y
    PROVE  Cardinality(S) <= 1
<1>1. CASE S = {}
  BY <1>1, FS_EmptySet
<1>2. CASE S # {}
  <2>1. PICK x \in S : S = {x}
    BY <1>2
  <2> QED BY <2>1, FS_Singleton
<1> QED BY <1>1, <1>2

\* The rows of one name under one key are one, and the answer "done" is of it.
THEOREM EachRequestOnce == ApiSpec => []RecordedOnce
<1>1. WritesInv => RecordedOnce
  <2> SUFFICES ASSUME WritesInv, NEW w \in Wish
               PROVE  LET rows == {a \in Attempt : row[a].there /\ row[a].by = wish[w].by /\ row[a].key = wish[w].key}
                      IN  /\ Cardinality(rows) <= 1
                          /\ wish[w].told = "done" => \E a \in rows : row[a].print = wish[w].asks
    BY DEF RecordedOnce
  <2> DEFINE rows == {a \in Attempt : row[a].there /\ row[a].by = wish[w].by /\ row[a].key = wish[w].key}
  <2>1. \A a, b \in rows : a = b
    BY DEF WritesInv, KeysOnce
  <2>2. Cardinality(rows) <= 1
    <3> HIDE DEF rows
    <3> QED BY <2>1, OneAtMost
  <2>3. wish[w].told = "done" => \E a \in rows : row[a].print = wish[w].asks
    BY DEF WritesInv, WordsTrue, Serves
  <2> QED BY <2>2, <2>3
<1> QED BY <1>1, WritesStart, WritesStep, PTL DEF ApiSpec

-----------------------------------------------------------------------------
(* The counting                                                            *)

\* Every request let through was counted, or could not be; and the count let
\* it through.
CountingInv ==
    /\ window \in [Subject -> Nat] /\ served \in [Subject -> Nat] /\ failures \in Nat
    /\ \A s \in Subject : served[s] <= window[s] + failures /\ served[s] <= MaxRequests + failures

\* A request that is let through.
LEMMA WithinCounts ==
    ASSUME CountingInv, NEW s \in Subject, NEW a, NEW next, Within(s, MaxRequests, a, next)
    PROVE  CountingInv'
<1> USE RateAssumption
<1>1. CASE window' = [window EXCEPT ![s] = @ + 1] /\ window[s] + 1 <= MaxRequests
           /\ served' = [served EXCEPT ![s] = @ + 1] /\ failures' = failures
  <2>1. /\ window' \in [Subject -> Nat] /\ served' \in [Subject -> Nat]
        /\ window'[s] = window[s] + 1 /\ served'[s] = served[s] + 1
        /\ \A r \in Subject \ {s} : window'[r] = window[r] /\ served'[r] = served[r]
    BY <1>1 DEF CountingInv
  <2> QED BY <1>1, <2>1 DEF CountingInv
<1>2. CASE failures' = failures + 1 /\ served' = [served EXCEPT ![s] = @ + 1] /\ window' = window
  <2>1. /\ served' \in [Subject -> Nat] /\ served'[s] = served[s] + 1
        /\ \A r \in Subject \ {s} : served'[r] = served[r]
    BY <1>2 DEF CountingInv
  <2> QED BY <1>2, <2>1 DEF CountingInv
<1> QED BY <1>1, <1>2 DEF Within, Number

\* One that is turned away is counted all the same.
LEMMA OverCounts ==
    ASSUME CountingInv, NEW s \in Subject, Over(s, MaxRequests)
    PROVE  CountingInv'
<1>1. window' = [window EXCEPT ![s] = @ + 1] /\ UNCHANGED <<served, failures>>
  BY DEF Over
<1>2. /\ window' \in [Subject -> Nat] /\ window'[s] = window[s] + 1
      /\ \A r \in Subject \ {s} : window'[r] = window[r]
  BY <1>1 DEF CountingInv
<1> QED BY <1>1, <1>2 DEF CountingInv

\* Every step keeps the count.
LEMMA CountingStep ==
    ASSUME CountingInv, [ApiNext]_api
    PROVE  CountingInv'
<1>1. ASSUME UNCHANGED <<window, served, failures>> PROVE CountingInv'
  BY <1>1 DEF CountingInv
<1>2. ASSUME NEW a \in Attempt, StaffEndpoint(a) \/ MemberEndpoint(a) \/ IntegrationEndpoint(a) \/ ServeMachine(a)
      PROVE  CountingInv'
  BY <1>2, WithinCounts, OverCounts DEF StaffEndpoint, MemberEndpoint, IntegrationEndpoint, ServeMachine, Subject, Channel
<1>3. ASSUME NEW a \in Attempt,
             \/ Answer(a) \/ Lost(a) \/ CredentialForToken(a) \/ RequireEnabled(a) \/ ExistingForKey(a)
             \/ Judge(a) \/ SendMachine(a) \/ \E w \in Wish : Request(a, w)
      PROVE  UNCHANGED <<window, served, failures>>
  BY <1>3 DEF Answer, Lost, CredentialForToken, RequireEnabled, ExistingForKey, Judge, SendMachine, Request, Still
<1>4. ASSUME NEW a \in Attempt, AllocateForPosting(a) \/ RecordTransaction(a) \/ RollBack(a)
      PROVE  UNCHANGED <<window, served, failures>>
  BY <1>4 DEF AllocateForPosting, RecordTransaction, RollBack
<1>5. CASE RevokeCredential \/ SetMemberOperations \/ UNCHANGED api
  BY <1>1, <1>5 DEF RevokeCredential, SetMemberOperations, api
<1>6. CASE WindowPasses
  BY <1>6, RateAssumption DEF WindowPasses, CountingInv
<1> QED BY <1>1, <1>2, <1>3, <1>4, <1>5, <1>6 DEF ApiNext

\* However many requests arrive together, the ceiling holds of those counted.
THEOREM CeilingHolds == ApiSpec => []WithinTheCeiling
<1>1. ApiInit => CountingInv
  BY RateAssumption DEF ApiInit, CountingInv
<1>2. CountingInv => WithinTheCeiling
  BY DEF CountingInv, WithinTheCeiling
<1> QED BY <1>1, <1>2, CountingStep, PTL DEF ApiSpec

-----------------------------------------------------------------------------
(* Codes and the sessions they open                                        *)

IdentitySpec == IdentityInit /\ [][IdentityNext]_identity

Issued == [issued : {TRUE}, consumed : BOOLEAN, expired : BOOLEAN, attempts : Nat, arrived : BOOLEAN]
SignedIn == [opened : {TRUE}, from : Challenge, revoked : BOOLEAN, refreshed : Nat]
Registered == [registered : {TRUE}, enabled : BOOLEAN, session : Session]

Requests ==
    {NotCalling} \cup [does : {"issue"}]
        \cup [does : {"send", "count"}, challenge : Challenge]
        \cup [does : {"silence"}, session : Session]
        \cup [does : {"register"}, session : Session, phone : Phone]
        \cup [does : {"push"}, phones : SUBSET Phone]

CodesTyped == challenge \in [Challenge -> {NotIssued} \cup Issued]
SessionsTyped == session \in [Session -> {NotOpened} \cup SignedIn]
DevicesTyped == device \in [Phone -> {NoDevice} \cup Registered]
CallersTyped == caller \in [Caller -> Requests]

\* A request under way is about a code that was issued.
AboutIssued ==
    \A q \in Caller : caller[q].does \in {"send", "count"} => challenge[caller[q].challenge].issued

\* A challenge at its limit is over.
LimitEnds ==
    \A c \in Challenge : challenge[c].issued /\ challenge[c].attempts >= MaxAttempts => challenge[c].consumed

\* The code of a session is used up, and no other session's.
OpenedOnce ==
    /\ \A s \in Session : session[s].opened => challenge[session[s].from].issued /\ challenge[session[s].from].consumed
    /\ \A r, s \in Session : (session[r].opened /\ session[s].opened /\ session[r].from = session[s].from) => r = s

CodesInv ==
    /\ CodesTyped /\ SessionsTyped /\ DevicesTyped /\ CallersTyped
    /\ AboutIssued /\ LimitEnds /\ OpenedOnce

\* A session that was opened has a code it was opened with.
LEMMA OpenedFrom ==
    ASSUME SessionsTyped, NEW s \in Session, session[s].opened
    PROVE  session[s] \in SignedIn
<1>1. session[s] \in {NotOpened} \cup SignedIn
  BY DEF SessionsTyped
<1>2. session[s] # NotOpened
  BY DEF NotOpened
<1> QED BY <1>1, <1>2

\* A step that leaves the codes and the sessions alone.
LEMMA CodesStay ==
    ASSUME CodesInv, UNCHANGED <<challenge, session>>, DevicesTyped', CallersTyped',
           \A q \in Caller : caller'[q].does \in {"send", "count"} => challenge[caller'[q].challenge].issued
    PROVE  CodesInv'
BY DEF CodesInv, CodesTyped, SessionsTyped, AboutIssued, LimitEnds, OpenedOnce

\* What becomes of a challenge: it never loses what ended it.
Later(old, new) ==
    /\ new \in Issued
    /\ old.issued => (old.consumed => new.consumed)
    /\ new.attempts >= MaxAttempts => new.consumed

\* A step on one challenge, which leaves the sessions and the devices alone.
LEMMA ChallengeMoves ==
    ASSUME CodesInv, UNCHANGED <<session, device>>, NEW c \in Challenge, NEW new,
           challenge' = [challenge EXCEPT ![c] = new], Later(challenge[c], new),
           CallersTyped',
           \A q \in Caller : caller'[q].does \in {"send", "count"} =>
               caller'[q].challenge = c \/ challenge[caller'[q].challenge].issued
    PROVE  CodesInv'
<1>1. challenge' \in [Challenge -> {NotIssued} \cup Issued] /\ challenge'[c] = new
      /\ \A d \in Challenge \ {c} : challenge'[d] = challenge[d]
  BY DEF CodesInv, CodesTyped, Later
<1>2. new.issued
  BY DEF Later, Issued
<1>3. CodesTyped' /\ SessionsTyped' /\ DevicesTyped'
  BY <1>1 DEF CodesInv, CodesTyped, SessionsTyped, DevicesTyped
<1>4. AboutIssued'
  <2> SUFFICES ASSUME NEW q \in Caller, NEW d, d = caller'[q].challenge, caller'[q].does \in {"send", "count"}
               PROVE  challenge'[d].issued
    BY DEF AboutIssued
  <2>1. d \in Challenge
    BY DEF CallersTyped, Requests, NotCalling
  <2> QED BY <1>1, <1>2, <2>1
<1>5. LimitEnds'
  BY <1>1 DEF CodesInv, LimitEnds, Later
<1>6. OpenedOnce'
  <2>1. \A s \in Session : session[s].opened => session[s].from \in Challenge
    BY OpenedFrom DEF CodesInv, SignedIn
  <2> QED BY <1>1, <1>2, <2>1 DEF CodesInv, OpenedOnce, Later
<1> QED BY <1>3, <1>4, <1>5, <1>6 DEF CodesInv

\* The row of a challenge that was issued.
LEMMA IssuedRow ==
    ASSUME CodesTyped, NEW c \in Challenge, challenge[c].issued
    PROVE  challenge[c] \in Issued
<1>1. challenge[c] \in {NotIssued} \cup Issued
  BY DEF CodesTyped
<1>2. challenge[c] # NotIssued
  BY DEF NotIssued
<1> QED BY <1>1, <1>2

\* One request takes another form.
LEMMA CallsAre ==
    ASSUME CallersTyped, NEW q \in Caller, NEW request \in Requests, Calls(q, request)
    PROVE  CallersTyped' /\ caller'[q] = request /\ \A p \in Caller \ {q} : caller'[p] = caller[p]
BY DEF CallersTyped, Calls

\* A request goes on, about a code issued before if about one at all, while
\* the codes and the sessions stay.
LEMMA CallKeeps ==
    ASSUME CodesInv, NEW q \in Caller, NEW request \in Requests, Calls(q, request),
           UNCHANGED <<challenge, session>>, DevicesTyped',
           request.does \in {"send", "count"} => challenge[request.challenge].issued
    PROVE  CodesInv'
<1>1. CallersTyped' /\ caller'[q] = request /\ \A p \in Caller \ {q} : caller'[p] = caller[p]
  BY CallsAre DEF CodesInv
<1>2. ASSUME NEW p \in Caller, NEW d, d = caller'[p].challenge, caller'[p].does \in {"send", "count"}
      PROVE  challenge[d].issued
  BY <1>1, <1>2 DEF CodesInv, AboutIssued
<1>3. \A p \in Caller : caller'[p].does \in {"send", "count"} => challenge[caller'[p].challenge].issued
  BY <1>2
<1> QED BY <1>1, <1>3, CodesStay

\* A request goes on with a challenge that moves.
LEMMA ChallengeAndCall ==
    ASSUME CodesInv, NEW q \in Caller, NEW request \in Requests, Calls(q, request),
           UNCHANGED <<session, device>>, NEW c \in Challenge, NEW new,
           challenge' = [challenge EXCEPT ![c] = new], Later(challenge[c], new),
           request.does \in {"send", "count"} => request.challenge = c
    PROVE  CodesInv'
<1>1. CallersTyped' /\ caller'[q] = request /\ \A p \in Caller \ {q} : caller'[p] = caller[p]
  BY CallsAre DEF CodesInv
<1>2. ASSUME NEW p \in Caller, NEW d, d = caller'[p].challenge, caller'[p].does \in {"send", "count"}
      PROVE  d = c \/ challenge[d].issued
  BY <1>1, <1>2 DEF CodesInv, AboutIssued
<1>3. \A p \in Caller : caller'[p].does \in {"send", "count"} =>
          caller'[p].challenge = c \/ challenge[caller'[p].challenge].issued
  BY <1>2
<1> QED BY <1>1, <1>3, ChallengeMoves

\* What may become of an issued row.
LEMMA RowsLater ==
    ASSUME CodesInv, NEW c \in Challenge, challenge[c].issued
    PROVE  /\ Later(challenge[c], [challenge[c] EXCEPT !.consumed = TRUE])
           /\ Later(challenge[c], [challenge[c] EXCEPT !.arrived = TRUE])
           /\ Later(challenge[c], [challenge[c] EXCEPT !.expired = TRUE])
           /\ Later(challenge[c], Counted(challenge[c]))
<1>1. PICK old : old = challenge[c]
  OBVIOUS
<1>2. old \in Issued
  BY <1>1, IssuedRow DEF CodesInv
<1>3. old.attempts >= MaxAttempts => old.consumed
  BY <1>1 DEF CodesInv, LimitEnds
<1>4. Later(old, [old EXCEPT !.consumed = TRUE])
  BY <1>2 DEF Later, Issued
<1>5. Later(old, [old EXCEPT !.arrived = TRUE])
  BY <1>2, <1>3 DEF Later, Issued
<1>6. Later(old, [old EXCEPT !.expired = TRUE])
  BY <1>2, <1>3 DEF Later, Issued
<1>7. Later(old, Counted(old))
  <2>1. PICK ends \in BOOLEAN : ends <=> (old.consumed \/ old.attempts + 1 >= MaxAttempts)
    OBVIOUS
  <2>2. PICK attempts \in Nat : attempts = old.attempts + 1
    BY <1>2 DEF Issued
  <2>3. Counted(old) = [old EXCEPT !.attempts = attempts, !.consumed = ends]
    BY <1>2, <2>1, <2>2 DEF Counted, Issued
  <2>4. PICK new : new = [old EXCEPT !.attempts = attempts, !.consumed = ends]
    OBVIOUS
  <2>5. new \in Issued /\ new.attempts = attempts /\ new.consumed = ends
    BY <1>2, <2>1, <2>2, <2>4 DEF Issued
  <2>6. old.attempts \in Nat /\ old.consumed \in BOOLEAN
    BY <1>2 DEF Issued
  <2>7. Later(old, new)
    BY <2>1, <2>2, <2>5, <2>6, AttemptsAssumption DEF Later
  <2> QED BY <2>3, <2>4, <2>7
<1> QED BY <1>1, <1>4, <1>5, <1>6, <1>7

\* A code is asked for.
LEMMA AskingSteps ==
    ASSUME CodesInv, NEW q \in Caller, AskForACode(q)
    PROVE  CodesInv'
<1>1. DevicesTyped' /\ [does |-> "issue"] \in Requests
  BY DEF CodesInv, AskForACode, DevicesTyped, Requests
<1> QED BY <1>1, CallKeeps DEF AskForACode

\* Codes: resent, issued, or mistyped.
LEMMA CodeSteps ==
    ASSUME CodesInv, NEW q \in Caller, NEW c \in Challenge,
           BeginResend(q, c) \/ IssueChallenge(q, c) \/ BeginMistype(q, c)
    PROVE  CodesInv'
<1> USE DEF Requests, NotCalling
<1>0. DevicesTyped /\ CallersTyped
  BY DEF CodesInv
<1>1. CASE BeginResend(q, c)
  <2>1. challenge' = [challenge EXCEPT ![c] = [challenge[c] EXCEPT !.consumed = TRUE]]
    BY <1>1 DEF BeginResend
  <2>2. Later(challenge[c], [challenge[c] EXCEPT !.consumed = TRUE])
    BY <1>1, RowsLater DEF BeginResend
  <2> DEFINE new == [challenge[c] EXCEPT !.consumed = TRUE]
  <2> HIDE DEF new
  <2>3. challenge' = [challenge EXCEPT ![c] = new] /\ Later(challenge[c], new)
    BY <2>1, <2>2 DEF new
  <2>4. [does |-> "issue"] \in Requests
    OBVIOUS
  <2> QED BY <1>1, <2>3, <2>4, ChallengeAndCall DEF BeginResend
<1>2. CASE IssueChallenge(q, c)
  <2> DEFINE new == [issued |-> TRUE, consumed |-> FALSE, expired |-> FALSE, attempts |-> 0, arrived |-> FALSE]
  <2>1. challenge' = [challenge EXCEPT ![c] = new] /\ Later(challenge[c], new)
    BY <1>2, AttemptsAssumption DEF IssueChallenge, Later, Issued
  <2>2. [does |-> "send", challenge |-> c] \in Requests
    OBVIOUS
  <2> HIDE DEF new
  <2> QED BY <1>2, <2>1, <2>2, ChallengeAndCall DEF IssueChallenge
<1>3. CASE BeginMistype(q, c)
  BY <1>0, <1>3, CallKeeps DEF BeginMistype, Live, DevicesTyped
<1> QED BY <1>1, <1>2, <1>3

\* The code is sent, or a wrong one counted.
LEMMA CodeAnswers ==
    ASSUME CodesInv, NEW q \in Caller, CommitMistype(q) \/ \E arrives \in BOOLEAN : DeliverCode(q, arrives)
    PROVE  CodesInv'
<1>1. PICK c : c = caller[q].challenge
  OBVIOUS
<1>2. caller[q].does \in {"send", "count"} /\ Calls(q, NotCalling) /\ UNCHANGED <<session, device>>
  BY DEF CommitMistype, DeliverCode
<1>3. c \in Challenge /\ challenge[c].issued
  BY <1>1, <1>2 DEF CodesInv, CallersTyped, AboutIssued, Requests, NotCalling
<1>4. ASSUME NEW new, challenge' = [challenge EXCEPT ![c] = new], Later(challenge[c], new)
      PROVE  CodesInv'
  <2>1. NotCalling \in Requests /\ NotCalling.does = "nothing"
    BY DEF Requests, NotCalling
  <2> QED BY <1>2, <1>3, <1>4, <2>1, ChallengeAndCall
<1>5. CASE CommitMistype(q)
  <2> DEFINE new == Counted(challenge[c])
  <2>1. challenge' = [challenge EXCEPT ![c] = new]
    BY <1>1, <1>5 DEF CommitMistype
  <2>2. Later(challenge[c], new)
    BY <1>3, RowsLater
  <2> HIDE DEF new
  <2> QED BY <1>4, <2>1, <2>2
<1>6. ASSUME NEW arrives \in BOOLEAN, DeliverCode(q, arrives) PROVE CodesInv'
  <2> DEFINE new == IF arrives THEN [challenge[c] EXCEPT !.arrived = TRUE] ELSE [challenge[c] EXCEPT !.consumed = TRUE]
  <2>1. challenge' = [challenge EXCEPT ![c] = new]
    BY <1>1, <1>6 DEF DeliverCode
  <2>2. Later(challenge[c], new)
    BY <1>3, RowsLater
  <2> HIDE DEF new
  <2> QED BY <1>4, <2>1, <2>2
<1> QED BY <1>5, <1>6

\* The code that was sent opens its session, and is used up.
LEMMA EnteringKeeps ==
    ASSUME CodesInv, NEW c \in Challenge, NEW s \in Session, EnterCode(c, s)
    PROVE  CodesInv'
<1>1. PICK new : new = [challenge[c] EXCEPT !.consumed = TRUE]
  OBVIOUS
<1>2. PICK fresh : fresh = [opened |-> TRUE, from |-> c, revoked |-> FALSE, refreshed |-> 0]
  OBVIOUS
<1>3. /\ challenge' = [challenge EXCEPT ![c] = new] /\ session' = [session EXCEPT ![s] = fresh]
      /\ UNCHANGED <<device, caller>>
      /\ challenge[c].issued /\ ~challenge[c].consumed /\ ~session[s].opened
  BY <1>1, <1>2 DEF EnterCode, Live
<1>4. Later(challenge[c], new) /\ new.issued /\ new.consumed
  <2>1. challenge[c] \in Issued
    BY <1>3, IssuedRow DEF CodesInv
  <2> QED BY <1>1, <1>3, <2>1, RowsLater DEF Issued
<1>5. fresh \in SignedIn /\ fresh.opened /\ fresh.from = c
  BY <1>2 DEF SignedIn
<1>6. /\ challenge' \in [Challenge -> {NotIssued} \cup Issued] /\ challenge'[c] = new
      /\ \A d \in Challenge \ {c} : challenge'[d] = challenge[d]
  BY <1>3, <1>4 DEF CodesInv, CodesTyped, Later
<1>7. /\ session' \in [Session -> {NotOpened} \cup SignedIn] /\ session'[s] = fresh
      /\ \A r \in Session \ {s} : session'[r] = session[r]
  BY <1>3, <1>5 DEF CodesInv, SessionsTyped
<1>8. CodesTyped' /\ SessionsTyped' /\ DevicesTyped' /\ CallersTyped'
  BY <1>3, <1>6, <1>7 DEF CodesInv, CodesTyped, SessionsTyped, DevicesTyped, CallersTyped
<1>9. AboutIssued'
  BY <1>3, <1>4, <1>6 DEF CodesInv, AboutIssued, CallersTyped, Requests, NotCalling
<1>10. LimitEnds'
  BY <1>4, <1>6 DEF CodesInv, LimitEnds
<1>11. OpenedOnce'
  <2>1. ASSUME NEW r \in Session \ {s}, session'[r].opened
        PROVE  session'[r].from # c /\ challenge'[session'[r].from].issued /\ challenge'[session'[r].from].consumed
    <3>1. session[r] \in SignedIn /\ session'[r] = session[r]
      BY <1>7, <2>1, OpenedFrom DEF CodesInv
    <3>2. PICK d \in Challenge : d = session[r].from
      BY <3>1 DEF SignedIn
    <3>3. challenge[d].issued /\ challenge[d].consumed
      BY <2>1, <3>1, <3>2 DEF CodesInv, OpenedOnce
    <3>4. challenge'[d] = challenge[d] /\ d # c
      BY <1>3, <1>6, <3>3
    <3> QED BY <3>1, <3>2, <3>3, <3>4
  <2> QED BY <1>4, <1>5, <1>6, <1>7, <2>1 DEF CodesInv, OpenedOnce
<1> QED BY <1>8, <1>9, <1>10, <1>11 DEF CodesInv

\* A session is refreshed or ends; the code it was opened with is the same.
LEMMA SessionMoves ==
    ASSUME CodesInv, NEW s \in Session, session[s].opened, NEW new \in SignedIn, new.from = session[s].from,
           session' = [session EXCEPT ![s] = new], UNCHANGED challenge, DevicesTyped', CallersTyped',
           AboutIssued'
    PROVE  CodesInv'
<1>1. /\ session' \in [Session -> {NotOpened} \cup SignedIn] /\ session'[s] = new
      /\ \A r \in Session \ {s} : session'[r] = session[r]
  BY DEF CodesInv, SessionsTyped
<1>2. \A r \in Session : session'[r].opened => session[r].opened /\ session'[r].from = session[r].from
  BY <1>1
<1>3. OpenedOnce'
  BY <1>2 DEF CodesInv, OpenedOnce
<1> QED BY <1>1, <1>3 DEF CodesInv, CodesTyped, SessionsTyped, LimitEnds

\* The devices of a session that ends.
LEMMA SilencedTyped ==
    ASSUME DevicesTyped, NEW s
    PROVE  Silenced(s) \in [Phone -> {NoDevice} \cup Registered]
<1>1. ASSUME NEW p \in Phone, device[p].registered PROVE [device[p] EXCEPT !.enabled = FALSE] \in Registered
  <2>1. device[p] \in {NoDevice} \cup Registered /\ device[p] # NoDevice
    BY <1>1 DEF DevicesTyped, NoDevice
  <2> QED BY <2>1 DEF Registered
<1> QED BY <1>1 DEF Silenced, DevicesTyped

\* A session is refreshed, found to be somebody's who left, or signed out of.
LEMMA SessionSteps ==
    ASSUME CodesInv, NEW s \in Session,
           \/ \E answered \in BOOLEAN : RefreshSession(s, answered)
           \/ \E q \in Caller : BeginRevoke(q, s)
    PROVE  CodesInv'
<1>1. DevicesTyped /\ CallersTyped /\ AboutIssued
  BY DEF CodesInv
<1>2. PICK old : old = session[s]
  OBVIOUS
<1>3. session[s].opened /\ old \in SignedIn /\ UNCHANGED challenge
  BY <1>2, OpenedFrom DEF RefreshSession, BeginRevoke, Stands, CodesInv
<1>4. [old EXCEPT !.refreshed = old.refreshed + 1] \in SignedIn /\ [old EXCEPT !.refreshed = old.refreshed + 1].from = old.from
  <2>1. PICK n \in Nat : n = old.refreshed + 1
    BY <1>3 DEF SignedIn
  <2>2. [old EXCEPT !.refreshed = n] \in SignedIn /\ [old EXCEPT !.refreshed = n].from = old.from
    BY <1>3 DEF SignedIn
  <2> QED BY <2>1, <2>2
<1>5. [old EXCEPT !.revoked = TRUE] \in SignedIn /\ [old EXCEPT !.revoked = TRUE].from = old.from
  BY <1>3 DEF SignedIn
<1>6. ASSUME NEW answered \in BOOLEAN, RefreshSession(s, answered) PROVE CodesInv'
  <2>1. PICK new \in SignedIn : new.from = session[s].from /\ session' = [session EXCEPT ![s] = new]
    BY <1>2, <1>4, <1>5, <1>6 DEF RefreshSession
  <2>2. DevicesTyped'
    BY <1>1, <1>6, SilencedTyped DEF RefreshSession, DevicesTyped
  <2>3. CallersTyped' /\ AboutIssued'
    BY <1>1, <1>3, <1>6 DEF RefreshSession, CallersTyped, AboutIssued
  <2> QED BY <1>3, <2>1, <2>2, <2>3, SessionMoves
<1>7. ASSUME NEW q \in Caller, BeginRevoke(q, s) PROVE CodesInv'
  <2>1. PICK new \in SignedIn : new.from = session[s].from /\ session' = [session EXCEPT ![s] = new]
    BY <1>2, <1>5, <1>7 DEF BeginRevoke
  <2>2. [does |-> "silence", session |-> s] \in Requests
    BY DEF Requests
  <2>3. CallersTyped' /\ caller'[q] = [does |-> "silence", session |-> s] /\ \A p \in Caller \ {q} : caller'[p] = caller[p]
    BY <1>1, <1>7, <2>2, CallsAre DEF BeginRevoke
  <2>4. DevicesTyped' /\ AboutIssued'
    BY <1>1, <1>3, <1>7, <2>3 DEF BeginRevoke, DevicesTyped, AboutIssued
  <2> QED BY <1>3, <2>1, <2>3, <2>4, SessionMoves
<1> QED BY <1>6, <1>7

\* What a phone does, and what is sent to it.
LEMMA DeviceSteps ==
    ASSUME CodesInv, NEW q \in Caller,
           \/ CommitRevoke(q) \/ CommitRegister(q) \/ BeginPush(q) \/ CallDies(q)
           \/ \E s \in Session, p \in Phone : BeginRegister(q, s, p)
           \/ \E p \in Phone, dead \in BOOLEAN : PushTo(q, p, dead)
    PROVE  CodesInv'
<1> USE DEF Requests, NotCalling
<1>1. DevicesTyped /\ CallersTyped /\ NotCalling \in Requests
  BY DEF CodesInv
<1>2. UNCHANGED <<challenge, session>>
  BY DEF CommitRevoke, CommitRegister, BeginPush, CallDies, BeginRegister, PushTo
<1>3. \A p \in Phone : device[p].registered => [device[p] EXCEPT !.enabled = FALSE] \in Registered
  <2> SUFFICES ASSUME NEW p \in Phone, device[p].registered PROVE [device[p] EXCEPT !.enabled = FALSE] \in Registered
    OBVIOUS
  <2>1. device[p] \in {NoDevice} \cup Registered /\ device[p] # NoDevice
    BY <1>1 DEF DevicesTyped, NoDevice
  <2> QED BY <2>1 DEF Registered
<1>4. CASE CommitRevoke(q)
  <2>1. DevicesTyped'
    BY <1>1, <1>4, SilencedTyped DEF CommitRevoke, DevicesTyped
  <2> QED BY <1>1, <1>2, <1>4, <2>1, CallKeeps DEF CommitRevoke
<1>5. CASE CommitRegister(q)
  <2>1. DevicesTyped'
    <3>1. caller[q].session \in Session /\ caller[q].phone \in Phone
      BY <1>1, <1>5 DEF CommitRegister, CallersTyped
    <3> QED BY <1>1, <1>5, <3>1 DEF CommitRegister, DevicesTyped, Registered
  <2> QED BY <1>1, <1>2, <1>5, <2>1, CallKeeps DEF CommitRegister
<1>6. CASE BeginPush(q)
  <2>1. Calls(q, [does |-> "push", phones |-> Listening]) /\ UNCHANGED device
    BY <1>6 DEF BeginPush
  <2>2. [does |-> "push", phones |-> Listening] \in Requests
    BY DEF Listening
  <2> QED BY <1>1, <1>2, <2>1, <2>2, CallKeeps DEF DevicesTyped
<1>7. CASE CallDies(q)
  BY <1>1, <1>2, <1>7, CallKeeps DEF CallDies, DevicesTyped
<1>8. ASSUME NEW s \in Session, NEW p \in Phone, BeginRegister(q, s, p) PROVE CodesInv'
  <2>1. [does |-> "register", session |-> s, phone |-> p] \in Requests
    OBVIOUS
  <2> QED BY <1>1, <1>2, <1>8, <2>1, CallKeeps DEF BeginRegister, DevicesTyped
<1>9. ASSUME NEW p \in Phone, NEW dead \in BOOLEAN, PushTo(q, p, dead) PROVE CodesInv'
  <2>1. PICK left : left = caller[q].phones \ {p}
    OBVIOUS
  <2>2. left \in SUBSET Phone
    BY <1>1, <1>9, <2>1 DEF PushTo, CallersTyped
  <2>3. Calls(q, IF left = {} THEN NotCalling ELSE [does |-> "push", phones |-> left])
    BY <1>9, <2>1 DEF PushTo
  <2>4. PICK request \in Requests : Calls(q, request) /\ request.does \in {"nothing", "push"}
    <3>1. [does |-> "push", phones |-> left] \in Requests
      BY <2>2
    <3> QED BY <1>1, <2>3, <3>1
  <2>5. DevicesTyped'
    <3>1. UNCHANGED device \/ device' = [device EXCEPT ![p].enabled = FALSE]
      BY <1>9 DEF PushTo
    <3>2. CASE device[p].registered
      BY <1>1, <1>3, <3>1, <3>2 DEF DevicesTyped
    <3>3. CASE ~device[p].registered
      <4>1. device[p] = NoDevice
        BY <1>1, <3>3 DEF DevicesTyped, Registered
      <4>2. [device[p] EXCEPT !.enabled = FALSE] = device[p]
        BY <4>1 DEF NoDevice
      <4> QED BY <1>1, <3>1, <4>1, <4>2 DEF DevicesTyped
    <3> QED BY <3>2, <3>3
  <2> QED BY <1>2, <2>4, <2>5, CallKeeps
<1> QED BY <1>4, <1>5, <1>6, <1>7, <1>8, <1>9

\* Every step of a phone, of a request and of the branch keeps it.
LEMMA CodesStep ==
    ASSUME CodesInv, [IdentityNext]_identity
    PROVE  CodesInv'
<1>1. ASSUME UNCHANGED <<challenge, session, caller>>, DevicesTyped' PROVE CodesInv'
  <2>1. CallersTyped' /\ \A q \in Caller : caller'[q].does \in {"send", "count"} => challenge[caller'[q].challenge].issued
    BY <1>1 DEF CodesInv, CallersTyped, AboutIssued
  <2> QED BY <1>1, <2>1, CodesStay
<1>2. DevicesTyped
  BY DEF CodesInv
<1>3. CASE UNCHANGED identity \/ CooldownPasses \/ LeavesTheApp
  BY <1>1, <1>2, <1>3 DEF identity, CooldownPasses, LeavesTheApp, DevicesTyped
<1>4. ASSUME NEW s \in Session, NEW p \in Phone, UnregisterDevice(s, p) PROVE CodesInv'
  <2>1. device[p] \in Registered
    BY <1>2, <1>4 DEF DevicesTyped, NoDevice, UnregisterDevice
  <2>2. [device[p] EXCEPT !.enabled = FALSE] \in Registered
    BY <2>1 DEF Registered
  <2> QED BY <1>1, <1>2, <1>4, <2>2 DEF UnregisterDevice, DevicesTyped
<1>5. ASSUME NEW c \in Challenge, CodeExpires(c) PROVE CodesInv'
  <2>1. challenge' = [challenge EXCEPT ![c] = [challenge[c] EXCEPT !.expired = TRUE]]
    BY <1>5 DEF CodeExpires
  <2>2. Later(challenge[c], [challenge[c] EXCEPT !.expired = TRUE])
    BY <1>5, RowsLater DEF CodeExpires
  <2>3. \A p \in Caller : caller'[p].does \in {"send", "count"} => challenge[caller'[p].challenge].issued
    BY <1>5 DEF CodesInv, AboutIssued, CodeExpires
  <2>4. UNCHANGED <<session, device>> /\ CallersTyped'
    BY <1>5 DEF CodeExpires, CodesInv, CallersTyped
  <2> DEFINE new == [challenge[c] EXCEPT !.expired = TRUE]
  <2> HIDE DEF new
  <2>5. challenge' = [challenge EXCEPT ![c] = new] /\ Later(challenge[c], new)
    BY <2>1, <2>2 DEF new
  <2> QED BY <2>3, <2>4, <2>5, ChallengeMoves
<1>6. ASSUME NEW q \in Caller,
             \/ AskForACode(q) \/ CommitMistype(q) \/ CommitRevoke(q) \/ CommitRegister(q) \/ BeginPush(q)
             \/ CallDies(q)
             \/ \E c \in Challenge : BeginResend(q, c) \/ IssueChallenge(q, c) \/ BeginMistype(q, c)
             \/ \E arrives \in BOOLEAN : DeliverCode(q, arrives)
             \/ \E s \in Session : BeginRevoke(q, s)
             \/ \E s \in Session, p \in Phone : BeginRegister(q, s, p)
             \/ \E p \in Phone, dead \in BOOLEAN : PushTo(q, p, dead)
      PROVE  CodesInv'
  BY <1>6, AskingSteps, CodeSteps, CodeAnswers, SessionSteps, DeviceSteps
<1> QED BY <1>3, <1>4, <1>5, <1>6, EnteringKeeps, SessionSteps DEF IdentityNext

\* Nothing was issued, opened or registered.
LEMMA CodesStart ==
    ASSUME IdentityInit
    PROVE  CodesInv
<1>1. /\ \A c \in Challenge : ~challenge[c].issued
      /\ \A s \in Session : ~session[s].opened
      /\ \A q \in Caller : caller[q].does = "nothing"
  BY DEF IdentityInit, NotIssued, NotOpened, NotCalling
<1>2. CodesTyped /\ SessionsTyped /\ DevicesTyped /\ CallersTyped
  BY DEF IdentityInit, CodesTyped, SessionsTyped, DevicesTyped, CallersTyped, Requests
<1> QED BY <1>1, <1>2 DEF CodesInv, AboutIssued, LimitEnds, OpenedOnce

\* A code opens one session at most, and the last wrong one ends it.
THEOREM CodesOnce == IdentitySpec => []CodesUsedUp
<1>1. CodesInv => CodesUsedUp
  <2> SUFFICES ASSUME CodesInv, NEW c \in Challenge
               PROVE  /\ Cardinality({s \in Session : session[s].opened /\ session[s].from = c}) <= 1
                      /\ challenge[c].issued /\ challenge[c].attempts >= MaxAttempts => challenge[c].consumed
    BY DEF CodesUsedUp
  <2> DEFINE opened == {s \in Session : session[s].opened /\ session[s].from = c}
  <2>1. \A r, s \in opened : r = s
    BY DEF CodesInv, OpenedOnce
  <2>2. Cardinality(opened) <= 1
    <3> HIDE DEF opened
    <3> QED BY <2>1, OneAtMost
  <2> QED BY <2>2 DEF CodesInv, LimitEnds
<1> QED BY <1>1, CodesStart, CodesStep, PTL DEF IdentitySpec

\* A push that starts is for devices of sessions that stand: of all requests
\* only BeginPush starts one.
THEOREM PushesReachTheSignedIn == IdentitySpec => SilentOnceSignedOut
<1> DEFINE Reaches ==
        \A q \in Caller :
            caller[q].does # "push" /\ caller'[q].does = "push" =>
                \A p \in caller'[q].phones :
                    \E s \in Session : device[p].session = s /\ session[s].opened /\ ~session[s].revoked
<1>1. ASSUME CodesInv, [IdentityNext]_identity PROVE Reaches \/ UNCHANGED identity
  <2>1. \A p \in Listening : \E s \in Session : device[p].session = s /\ session[s].opened /\ ~session[s].revoked
    <3> SUFFICES ASSUME NEW p \in Phone, device[p].registered, Stands(device[p].session)
                 PROVE  \E s \in Session : device[p].session = s /\ session[s].opened /\ ~session[s].revoked
      BY DEF Listening
    <3>1. device[p] \in Registered
      BY <1>1 DEF CodesInv, DevicesTyped, NoDevice
    <3> QED BY <3>1 DEF Registered, Stands
  <2>2. ASSUME NEW q \in Caller, NEW request, Calls(q, request), request.does # "push" \/ caller[q].does = "push"
        PROVE  Reaches
    BY <1>1, <2>2 DEF Calls, CodesInv, CallersTyped
  <2>3. ASSUME UNCHANGED caller PROVE Reaches
    BY <2>3
  <2>4. ASSUME NEW q \in Caller, BeginPush(q) PROVE Reaches
    BY <1>1, <2>1, <2>4 DEF BeginPush, Calls, CodesInv, CallersTyped
  <2> HIDE DEF Reaches
  <2>5. ASSUME NEW q \in Caller,
               \/ AskForACode(q) \/ CommitMistype(q) \/ CommitRevoke(q) \/ CommitRegister(q) \/ CallDies(q)
               \/ \E c \in Challenge : BeginResend(q, c) \/ IssueChallenge(q, c) \/ BeginMistype(q, c)
               \/ \E arrives \in BOOLEAN : DeliverCode(q, arrives)
               \/ \E s \in Session : BeginRevoke(q, s)
               \/ \E s \in Session, p \in Phone : BeginRegister(q, s, p)
        PROVE  Reaches
    <3>1. CASE AskForACode(q) \/ \E c \in Challenge : BeginResend(q, c)
      BY <2>2, <3>1 DEF AskForACode, BeginResend
    <3>2. CASE CommitMistype(q) \/ CommitRevoke(q) \/ CommitRegister(q) \/ CallDies(q)
               \/ \E arrives \in BOOLEAN : DeliverCode(q, arrives)
      <4>1. Calls(q, NotCalling)
        BY <3>2 DEF CommitMistype, CommitRevoke, CommitRegister, CallDies, DeliverCode
      <4> QED BY <2>2, <4>1 DEF NotCalling
    <3>3. ASSUME NEW c \in Challenge, IssueChallenge(q, c) PROVE Reaches
      BY <2>2, <3>3 DEF IssueChallenge
    <3>4. ASSUME NEW c \in Challenge, BeginMistype(q, c) PROVE Reaches
      BY <2>2, <3>4 DEF BeginMistype
    <3>5. ASSUME NEW s \in Session, BeginRevoke(q, s) PROVE Reaches
      BY <2>2, <3>5 DEF BeginRevoke
    <3>6. ASSUME NEW s \in Session, NEW p \in Phone, BeginRegister(q, s, p) PROVE Reaches
      BY <2>2, <3>6 DEF BeginRegister
    <3> QED BY <2>5, <3>1, <3>2, <3>3, <3>4, <3>5, <3>6
  <2>6. ASSUME NEW q \in Caller, NEW p \in Phone, NEW dead \in BOOLEAN, PushTo(q, p, dead) PROVE Reaches
    <3>1. caller[q].does = "push" /\ \E request : Calls(q, request)
      BY <2>6 DEF PushTo
    <3> QED BY <2>2, <3>1
  <2>7. ASSUME \/ CooldownPasses \/ LeavesTheApp
               \/ \E c \in Challenge : CodeExpires(c)
               \/ \E c \in Challenge, s \in Session : EnterCode(c, s)
               \/ \E s \in Session, answered \in BOOLEAN : RefreshSession(s, answered)
               \/ \E s \in Session, p \in Phone : UnregisterDevice(s, p)
        PROVE  Reaches
    <3>1. UNCHANGED caller
      BY <2>7 DEF CooldownPasses, LeavesTheApp, CodeExpires, EnterCode, RefreshSession, UnregisterDevice
    <3> QED BY <2>3, <3>1
  <2> QED BY <1>1, <2>4, <2>5, <2>6, <2>7 DEF IdentityNext
<1>2. IdentitySpec => []CodesInv
  BY CodesStart, CodesStep, PTL DEF IdentitySpec
<1>3. CodesInv /\ [IdentityNext]_identity => [Reaches]_identity
  BY <1>1
<1> QED BY <1>2, <1>3, PTL DEF IdentitySpec, SilentOnceSignedOut

-----------------------------------------------------------------------------
(* Partners and the word that goes about them                              *)

ShowcaseSpec == ShowcaseInit /\ [][ShowcaseNext]_showcase

\* Those about to tell every phone of c.
Announcers(c) == {q \in Editor : editor[q].does = "announce" /\ editor[q].card = c}
Holds(q, c) == q \in Editor /\ editor[q].does = "edit" /\ editor[q].card = c

CardsTyped ==
    /\ card = [c \in Card |-> card[c]] /\ editor = [q \in Editor |-> editor[q]]
    /\ told \in [Card -> Nat] /\ appeared \in [Card -> Nat]
    /\ \A q \in Editor : editor[q] # Idling => editor[q].card \in Card

\* A row is one editor's at a time, who knows what it shows.
HeldByOne ==
    \A c \in Card, q \in Editor : Holds(q, c) =>
        /\ card[c].there
        /\ \A p \in Editor : Holds(p, c) => p = q
        /\ c \in Outlet => (editor[q].was <=> Shows(c, card[c]))

\* Every word told, or about to be, is of an appearance of its own.
WordsCounted ==
    \A c \in Outlet : IsFiniteSet(Announcers(c)) /\ told[c] + Cardinality(Announcers(c)) <= appeared[c]

ShowcaseInv == CardsTyped /\ HeldByOne /\ WordsCounted

\* Whoever is told to announce joins those about to; anyone else who was not
\* one of them leaves them as they are.
LEMMA AnnouncersAre ==
    ASSUME CardsTyped, NEW q \in Editor, NEW request, editor' = [editor EXCEPT ![q] = request], NEW c
    PROVE  /\ (request.does = "announce" /\ request.card = c) => Announcers(c)' = Announcers(c) \cup {q}
           /\ ~(request.does = "announce" /\ request.card = c) => Announcers(c)' = Announcers(c) \ {q}
           /\ editor'[q] = request /\ \A p \in Editor \ {q} : editor'[p] = editor[p]
           /\ editor' = [p \in Editor |-> editor'[p]]
<1>1. editor'[q] = request /\ (\A p \in Editor \ {q} : editor'[p] = editor[p]) /\ editor' = [p \in Editor |-> editor'[p]]
  BY DEF CardsTyped
<1> QED BY <1>1 DEF Announcers

\* Sets that grow or shrink by one.
LEMMA OneMore ==
    ASSUME NEW S, IsFiniteSet(S), NEW x, x \notin S
    PROVE  IsFiniteSet(S \cup {x}) /\ Cardinality(S \cup {x}) = Cardinality(S) + 1
BY FS_AddElement

LEMMA OneLess ==
    ASSUME NEW S, IsFiniteSet(S), NEW x \in S
    PROVE  IsFiniteSet(S \ {x}) /\ Cardinality(S \ {x}) + 1 = Cardinality(S)
<1>1. IsFiniteSet(S \ {x}) /\ Cardinality(S \ {x}) = Cardinality(S) - 1
  BY FS_RemoveElement
<1>2. Cardinality(S) \in Nat
  BY FS_CardinalityType
<1> QED BY <1>1, <1>2

\* A row is written, and its editor announces it or is done.
LEMMA RowWritten ==
    ASSUME ShowcaseInv, NEW q \in Editor, NEW c \in Card, NEW was, NEW form, UNCHANGED <<today, told>>,
           RowBecomes(c, form), Then(q, c, was, form), editor[q].does # "announce",
           \A p \in Editor \ {q} : ~Holds(p, c),
           (c \in Outlet /\ ~was) => ~Shows(c, card[c])
    PROVE  ShowcaseInv'
<1>1. PICK request : request = IF Announcing(c, was, form) THEN [does |-> "announce", card |-> c] ELSE Idling
  OBVIOUS
<1>2. request.does # "edit" /\ (request # Idling => request.card = c)
      /\ (request.does = "announce" => request.card = c /\ Announcing(c, was, form))
  BY <1>1 DEF Idling
<1>3. CardsTyped /\ HeldByOne /\ WordsCounted /\ editor' = [editor EXCEPT ![q] = request]
  BY <1>1 DEF ShowcaseInv, Then
<1>4. /\ editor'[q] = request /\ (\A p \in Editor \ {q} : editor'[p] = editor[p])
      /\ editor' = [p \in Editor |-> editor'[p]]
  BY <1>3, AnnouncersAre
<1>5. /\ card' = [d \in Card |-> card'[d]] /\ \A d \in Card \ {c} : card'[d] = card[d]
      /\ appeared' \in [Card -> Nat] /\ (\A d \in Card \ {c} : appeared'[d] = appeared[d])
      /\ appeared'[c] = IF Shows(c, form) /\ ~Shows(c, card[c]) THEN appeared[c] + 1 ELSE appeared[c]
  BY <1>3 DEF RowBecomes, CardsTyped
<1>6. CardsTyped'
  BY <1>2, <1>3, <1>4, <1>5 DEF CardsTyped
<1>7. HeldByOne'
  <2>1. ASSUME NEW p \in Editor, NEW d \in Card, Holds(p, d)'
        PROVE  p # q /\ d # c /\ Holds(p, d) /\ card'[d] = card[d] /\ editor'[p] = editor[p]
    BY <1>2, <1>4, <1>5, <2>1 DEF Holds
  <2>2. \A d \in Card : Shows(d, card[d])' <=> (IF card'[d] = card[d] THEN Shows(d, card[d]) ELSE Shows(d, card[d])')
    BY DEF Shows
  <2> QED BY <1>3, <2>1, <2>2 DEF HeldByOne
<1>8. WordsCounted'
  <2> SUFFICES ASSUME NEW d \in Outlet
               PROVE  (IsFiniteSet(Announcers(d)) /\ told[d] + Cardinality(Announcers(d)) <= appeared[d])'
    BY DEF WordsCounted
  <2>1. d \in Card /\ IsFiniteSet(Announcers(d)) /\ Cardinality(Announcers(d)) \in Nat
        /\ told[d] \in Nat /\ appeared[d] \in Nat
        /\ told[d] + Cardinality(Announcers(d)) <= appeared[d] /\ q \notin Announcers(d)
    BY <1>3, FS_CardinalityType DEF WordsCounted, Announcers, Card, CardsTyped
  <2>2. CASE request.does = "announce" /\ d = c
    <3>1. Announcers(d)' = Announcers(d) \cup {q}
      BY <1>2, <1>3, <2>2, AnnouncersAre
    <3>2. appeared'[d] = appeared[d] + 1
      BY <1>2, <1>5, <2>2 DEF Announcing
    <3> QED BY <2>1, <3>1, <3>2, OneMore
  <2>3. CASE ~(request.does = "announce" /\ d = c)
    <3>1. Announcers(d)' = Announcers(d)
      <4>1. ~(request.does = "announce" /\ request.card = d)
        BY <1>2, <2>3
      <4>2. Announcers(d)' = Announcers(d) \ {q}
        BY <1>4, <4>1 DEF Announcers
      <4> QED BY <2>1, <4>2, Zenon
    <3>2. appeared'[d] >= appeared[d]
      BY <1>5, <2>1
    <3>3. appeared'[d] \in Nat
      BY <1>5, <2>1
    <3> QED BY <2>1, <3>1, <3>2, <3>3
  <2> QED BY <2>2, <2>3
<1> QED BY <1>6, <1>7, <1>8 DEF ShowcaseInv

\* An editor takes a row, gives it back, or has told everyone of it.
LEMMA EditorMoves ==
    ASSUME ShowcaseInv, NEW q \in Editor, NEW request, editor' = [editor EXCEPT ![q] = request],
           UNCHANGED <<card, today, appeared>>,
           request.does # "announce", request # Idling => request.card \in Card,
           \A c \in Card : request.does = "edit" /\ request.card = c =>
               /\ card[c].there /\ ~Held(c)
               /\ request.was <=> Shows(c, card[c]),
           told' \in [Card -> Nat],
           \A c \in Card : \/ told'[c] = told[c]
                           \/ told'[c] = told[c] + 1 /\ q \in Announcers(c)
    PROVE  ShowcaseInv'
<1>1. CardsTyped /\ HeldByOne /\ WordsCounted
  BY DEF ShowcaseInv
<1>2. /\ editor'[q] = request /\ (\A p \in Editor \ {q} : editor'[p] = editor[p])
      /\ editor' = [p \in Editor |-> editor'[p]]
  BY <1>1, AnnouncersAre
<1>3. CardsTyped'
  BY <1>1, <1>2 DEF CardsTyped
<1>4. HeldByOne'
  <2>1. \A c \in Card : Shows(c, card[c])' <=> Shows(c, card[c])
    BY DEF Shows
  <2>2. \A p \in Editor \ {q}, c \in Card : Holds(p, c)' <=> Holds(p, c)
    BY <1>2 DEF Holds
  <2>3. \A c \in Card : Holds(q, c)' => request.does = "edit" /\ request.card = c
    BY <1>2 DEF Holds
  <2> QED BY <1>1, <1>2, <2>1, <2>2, <2>3 DEF HeldByOne, Held, Holds
<1>5. WordsCounted'
  <2> SUFFICES ASSUME NEW d \in Outlet
               PROVE  (IsFiniteSet(Announcers(d)) /\ told[d] + Cardinality(Announcers(d)) <= appeared[d])'
    BY DEF WordsCounted
  <2>1. d \in Card /\ IsFiniteSet(Announcers(d)) /\ Cardinality(Announcers(d)) \in Nat
        /\ told[d] \in Nat /\ appeared[d] \in Nat
        /\ told[d] + Cardinality(Announcers(d)) <= appeared[d]
    BY <1>1, FS_CardinalityType DEF WordsCounted, Card, CardsTyped
  <2>2. Announcers(d)' = Announcers(d) \ {q}
    BY <1>1, AnnouncersAre
  <2>3. CASE q \in Announcers(d)
    <3>1. IsFiniteSet(Announcers(d) \ {q}) /\ Cardinality(Announcers(d) \ {q}) + 1 = Cardinality(Announcers(d))
      BY <2>1, <2>3, OneLess
    <3>2. Cardinality(Announcers(d) \ {q}) \in Nat
      BY <3>1, FS_CardinalityType
    <3> QED BY <2>1, <2>2, <3>1, <3>2
  <2>4. CASE q \notin Announcers(d)
    <3>1. Announcers(d) \ {q} = Announcers(d)
      BY <2>4
    <3> QED BY <2>1, <2>2, <2>4, <3>1
  <2> QED BY <2>3, <2>4
<1> QED BY <1>3, <1>4, <1>5 DEF ShowcaseInv

\* Every edit, every word and every day keeps it.
LEMMA ShowcaseStep ==
    ASSUME ShowcaseInv, [ShowcaseNext]_showcase
    PROVE  ShowcaseInv'
<1>1. CardsTyped /\ HeldByOne /\ WordsCounted
  BY DEF ShowcaseInv
<1>2. ASSUME NEW q \in Editor, NEW c \in Card, NEW form, CreateCard(q, c, form) PROVE ShowcaseInv'
  <2>1. editor[q].does # "announce" /\ ~card[c].there
    BY <1>2 DEF CreateCard, Idling, Gone
  <2>2. ~Shows(c, card[c]) /\ \A p \in Editor \ {q} : ~Holds(p, c)
    BY <1>1, <2>1 DEF Shows, HeldByOne
  <2> QED BY <1>2, <2>1, <2>2, RowWritten DEF CreateCard
<1>3. ASSUME NEW q \in Editor, CommitUpdateCard(q) PROVE ShowcaseInv'
  <2>1. PICK c, was, form : c = editor[q].card /\ was = editor[q].was /\ form = editor[q].form
    OBVIOUS
  <2>2. editor[q] # Idling
    BY <1>3 DEF CommitUpdateCard, Idling
  <2>3. c \in Card /\ Holds(q, c)
    BY <1>1, <1>3, <2>1, <2>2 DEF CommitUpdateCard, Holds, CardsTyped
  <2>4. /\ \A p \in Editor \ {q} : ~Holds(p, c)
        /\ (c \in Outlet /\ ~was) => ~Shows(c, card[c])
    BY <1>1, <2>1, <2>3 DEF HeldByOne
  <2>5. RowBecomes(c, form) /\ Then(q, c, was, form) /\ editor[q].does # "announce" /\ UNCHANGED <<today, told>>
    BY <1>3, <2>1 DEF CommitUpdateCard
  <2> QED BY <2>3, <2>4, <2>5, RowWritten
<1>4. ASSUME NEW q \in Editor, NEW c \in Card, NEW form, BeginUpdateCard(q, c, form) PROVE ShowcaseInv'
  <2>2. PICK request : request = [does |-> "edit", card |-> c, form |-> form, was |-> Shows(c, card[c])]
    OBVIOUS
  <2>3. editor' = [editor EXCEPT ![q] = request] /\ UNCHANGED <<card, today, told, appeared>>
        /\ card[c].there /\ ~Held(c)
    BY <1>4, <2>2 DEF BeginUpdateCard, Free
  <2>4. request.does = "edit" /\ request.card = c /\ (request.was <=> Shows(c, card[c]))
    BY <2>2
  <2>5. told' \in [Card -> Nat] /\ \A d \in Card : told'[d] = told[d]
    BY <1>1, <2>3 DEF CardsTyped
  <2> QED BY <2>3, <2>4, <2>5, EditorMoves
<1>5. ASSUME NEW q \in Editor, RollBackUpdate(q) \/ Unannounced(q) \/ Announce(q) PROVE ShowcaseInv'
  <2>1. Idling.does = "nothing"
    BY DEF Idling
  <2>2. told' \in [Card -> Nat] /\ \A c \in Card : told'[c] = told[c] \/ (told'[c] = told[c] + 1 /\ q \in Announcers(c))
    <3>1. CASE UNCHANGED told
      BY <1>1, <3>1 DEF CardsTyped
    <3>2. CASE Announce(q)
      <4>1. PICK c : c = editor[q].card /\ editor[q].does = "announce"
        BY <3>2 DEF Announce
      <4>2. told' = [told EXCEPT ![c] = told[c]] \/ told' = [told EXCEPT ![c] = told[c] + 1]
        BY <3>2, <4>1 DEF Announce
      <4>3. c \in Card /\ q \in Announcers(c)
        BY <1>1, <4>1 DEF CardsTyped, Announcers, Idling
      <4> QED BY <1>1, <4>2, <4>3 DEF CardsTyped
    <3> QED BY <1>5, <3>1, <3>2 DEF RollBackUpdate, Unannounced
  <2>3. editor' = [editor EXCEPT ![q] = Idling] /\ UNCHANGED <<card, today, appeared>>
    BY <1>5 DEF RollBackUpdate, Unannounced, Announce
  <2> QED BY <2>1, <2>2, <2>3, EditorMoves
<1>6. ASSUME UNCHANGED <<editor, told, appeared>>, card' = [c \in Card |-> card'[c]],
             \A c \in Card : (\E q \in Editor : Holds(q, c)) => card'[c] = card[c]
      PROVE  ShowcaseInv'
  <2>1. \A c \in Outlet : card'[c] = card[c] => (Shows(c, card[c])' <=> Shows(c, card[c]))
    BY DEF Shows
  <2>2. \A q \in Editor, c \in Card : Holds(q, c)' <=> Holds(q, c)
    BY <1>6 DEF Holds
  <2>3. HeldByOne'
    BY <1>1, <1>6, <2>1, <2>2 DEF HeldByOne
  <2>4. \A c : Announcers(c)' = Announcers(c)
    BY <1>6 DEF Announcers
  <2> QED BY <1>1, <1>6, <2>3, <2>4 DEF ShowcaseInv, CardsTyped, WordsCounted
<1>7. ASSUME NEW c \in Card, DeleteCard(c) PROVE ShowcaseInv'
  BY <1>1, <1>6, <1>7 DEF DeleteCard, Held, Holds, CardsTyped
<1>8. CASE DayPasses \/ UNCHANGED showcase
  BY <1>1, <1>6, <1>8 DEF DayPasses, showcase, CardsTyped
<1> QED BY <1>2, <1>3, <1>4, <1>5, <1>7, <1>8 DEF ShowcaseNext

\* Nobody edits, and nothing has appeared.
LEMMA ShowcaseStart ==
    ASSUME ShowcaseInit
    PROVE  ShowcaseInv
<1>1. \A q \in Editor : editor[q].does = "nothing"
  BY DEF ShowcaseInit, Idling
<1>2. CardsTyped /\ HeldByOne
  BY <1>1 DEF ShowcaseInit, CardsTyped, HeldByOne, Holds
<1>3. \A c : Announcers(c) = {}
  BY <1>1 DEF Announcers
<1>4. WordsCounted
  BY <1>3, FS_EmptySet DEF ShowcaseInit, WordsCounted, Card
<1> QED BY <1>2, <1>4 DEF ShowcaseInv

\* The phones hear of a partner no oftener than one appeared.
THEOREM PartnersHeardOnce == ShowcaseSpec => []PartnersToldOnce
<1>1. ShowcaseInv => PartnersToldOnce
  <2> SUFFICES ASSUME ShowcaseInv, NEW c \in Outlet PROVE told[c] <= appeared[c]
    BY DEF PartnersToldOnce
  <2>1. told[c] \in Nat /\ appeared[c] \in Nat /\ Cardinality(Announcers(c)) \in Nat
        /\ told[c] + Cardinality(Announcers(c)) <= appeared[c]
    BY FS_CardinalityType DEF ShowcaseInv, CardsTyped, WordsCounted, Card
  <2> QED BY <2>1
<1> QED BY <1>1, ShowcaseStart, ShowcaseStep, PTL DEF ShowcaseSpec

-----------------------------------------------------------------------------
(* An application, what it stands for and what it makes                    *)

Standing == {"draft", "submitted", "returned", "received", "approved", "rejected"}
Editable == {"draft", "returned", "received"}
Members == {AsMember(m) : m \in App}
Customers == {AsCustomer(c) : c \in App}
Owners == {None} \cup Members \cup Customers
Slots == App \X (Default \cup Further)

Files ==
    [status : Standing, kind : {"membership", "additional", "customer"}, nic : Nic \cup {Blank},
     opens : SUBSET Further, source : {None} \cup Customers, rejoins : {None} \cup Members,
     holder : Owners, root : App, online : BOOLEAN]

Errands ==
    {Away} \cup [does : {"convert"}, customer : App] \cup [does : {"rejoin"}, member : App]
        \cup [does : {"insert"}] \cup [does : {"apply"}, nic : Nic]
        \cup [does : {"tie", "check", "receive"}, app : App]
        \cup [does : {"save", "fill"}, app : App, nic : Nic]
        \cup [does : {"submit"}, app : App, to : {"submitted", "received"}]
        \cup [does : {"admit"}, app : App, moves : SUBSET (App \X Further)]

FilesTyped == file \in [App -> Files \cup {NoFile, Deleted}]
MembersTyped == member \in [App -> {NotAMember} \cup [status : {"active", "resigned"}, filed : App]]
CustomersTyped == customer \in [App -> {NotACustomer} \cup [status : {"active", "closed", "converted"}]]
HeldTyped == held \in [Slots -> [open : BOOLEAN, owner : Owners]]
ClerksTyped == clerk \in [Clerk -> Errands]

\* A member, and the application they last came in by, are of approved ones;
\* so is a customer.
MembersApproved ==
    \A m \in App : member[m] # NotAMember =>
        file[m].status = "approved" /\ file[member[m].filed].status = "approved"
CustomersApproved == \A c \in App : customer[c] # NotACustomer => file[c].status = "approved"

\* Whoever an application names is there, and their folder is its folder.
NamesMember(form, m) == form.rejoins = AsMember(m) \/ form.holder = AsMember(m)
NamesCustomer(form, c) == form.source = AsCustomer(c) \/ form.holder = AsCustomer(c)
FolderIsMembers(form) ==
    \A m \in App : NamesMember(form, m) => member[m] # NotAMember /\ form.root = file[member[m].filed].root
FolderIsCustomers(form) ==
    \A c \in App : NamesCustomer(form, c) => customer[c] # NotACustomer /\ form.root = file[c].root
OneFolder == \A a \in App : Exists(a) => FolderIsMembers(file[a]) /\ FolderIsCustomers(file[a])

\* An application for a further account has no person of its own.
PersonNotEntered(form) == form.kind = "additional" => form.nic = Blank
NobodyNew == \A a \in App : Exists(a) => PersonNotEntered(file[a])

\* A request still has the form it read, or finds none: nobody decides on what
\* is being edited.
OnAFile == {"tie", "check", "receive", "save", "fill", "submit"}
RequestStands(q) ==
    /\ clerk[q].does = "convert" => customer[clerk[q].customer] # NotACustomer
    /\ clerk[q].does = "rejoin" => member[clerk[q].member] # NotAMember
    /\ clerk[q].does \in OnAFile =>
           file[clerk[q].app] = Deleted \/ file[clerk[q].app].status \in Editable
    /\ clerk[q].does \in {"save", "fill"} =>
           file[clerk[q].app] = Deleted \/ file[clerk[q].app].kind # "additional"
    /\ clerk[q].does = "admit" =>
           /\ file[clerk[q].app] = Deleted \/ (file[clerk[q].app] # NoFile /\ file[clerk[q].app].source # None)
           /\ \A x, y \in clerk[q].moves : x[2] = y[2] => x = y
RequestsStand == \A q \in Clerk : RequestStands(q)

\* Looked for under its NIC, and not edited since.
Cleared(a) ==
    \/ file[a].status \in {"submitted", "approved"}
    \/ Exists(a) /\ \E q \in Clerk : clerk[q].does = "submit" /\ clerk[q].app = a
ClearedApart ==
    \A a, b \in App :
        (Cleared(a) /\ Cleared(b) /\ file[a].nic = file[b].nic /\ file[a].nic # Blank) => file[a].root = file[b].root

\* An account is somebody's who is there; a customer's is of no type a
\* membership opens.
OwnersThere ==
    \A x \in Slots :
        /\ \A m \in App : held[x].owner = AsMember(m) => member[m] # NotAMember
        /\ \A c \in App : held[x].owner = AsCustomer(c) => customer[c] # NotACustomer /\ x[2] \in Further

AdmTyped == FilesTyped /\ MembersTyped /\ CustomersTyped /\ HeldTyped /\ ClerksTyped
AdmInv ==
    /\ AdmTyped /\ MembersApproved /\ CustomersApproved /\ OneFolder /\ NobodyNew
    /\ RequestsStand /\ ClearedApart /\ OwnersThere /\ OneAccountAType

-----------------------------------------------------------------------------
(* What a step may do to what is on file                                   *)

SameFile(a) ==
    /\ file'[a].kind = file[a].kind /\ file'[a].root = file[a].root /\ file'[a].opens = file[a].opens
    /\ file'[a].source = file[a].source /\ file'[a].rejoins = file[a].rejoins
    /\ file'[a].holder = file[a].holder

\* Untouched; thrown away while a draft; new; or edited, when an approval stays.
Untouched(a) == file'[a] = file[a]
ThrownAway(a) == file[a].status = "draft" /\ file'[a] = Deleted
Begun(a) ==
    /\ file[a] = NoFile /\ file'[a] \in Files /\ file'[a].status = "draft"
    /\ FolderIsMembers(file'[a]) /\ FolderIsCustomers(file'[a]) /\ PersonNotEntered(file'[a])
Edited(a) ==
    /\ file[a] \in Files /\ file'[a] \in Files /\ SameFile(a)
    /\ file[a].kind = "additional" => file'[a].nic = file[a].nic
    /\ file[a].status = "approved" => file'[a].status = "approved"

FilesFollow == \A a \in App : Untouched(a) \/ ThrownAway(a) \/ Begun(a) \/ Edited(a)

\* A member who is there stays there, in their folder; one who is new came in
\* by what is approved.
CameIn(m) ==
    /\ member'[m] # NotAMember /\ member'[m].filed \in App
    /\ file'[m].status = "approved" /\ file'[member'[m].filed].status = "approved"
    /\ member[m] # NotAMember => file[member'[m].filed] \in Files /\ file[member'[m].filed].root = file[member[m].filed].root
MembersFollow == \A m \in App : member'[m] = member[m] \/ CameIn(m)

CustomersFollow ==
    \A c \in App :
        \/ customer'[c] = customer[c]
        \/ customer'[c] # NotACustomer /\ (customer[c] # NotACustomer \/ file'[c].status = "approved")

\* What is read of a form, whatever its form.
LEMMA FileForms ==
    ASSUME FilesTyped, NEW a \in App
    PROVE  /\ file[a] \in Files \/ file[a] = NoFile \/ file[a] = Deleted
           /\ file[a] \in Files <=> Exists(a)
           /\ file[a].status \in Standing => file[a] \in Files
           /\ file[a] = NoFile => file[a].status = "absent"
           /\ file[a] = Deleted => file[a].status = "deleted"
           /\ NoFile # Deleted
           /\ file[a] \in Files => file[a].status \in Standing /\ file[a].root \in App
    BY DEF FilesTyped, Files, NoFile, Deleted, Exists, Standing

\* Who is what they are stays so, and every folder stays one.
LEMMA FolderKept ==
    ASSUME AdmInv, FilesTyped', FilesFollow, MembersFollow, CustomersFollow
    PROVE  MembersApproved' /\ CustomersApproved' /\ OneFolder' /\ NobodyNew'
<1> USE DEF AdmInv, AdmTyped
<1>1. \A a \in App : file[a].status = "approved" => file'[a].status = "approved" /\ file'[a] \in Files /\ file'[a].root = file[a].root
    <2> TAKE a \in App
    <2>1. file[a].status = "approved" => file[a] \in Files
        BY FileForms DEF Standing
    <2> QED BY <2>1, FileForms DEF FilesFollow, Untouched, ThrownAway, Begun, Edited, SameFile, Standing
<1>2. \A m \in App : member[m] # NotAMember => member[m].filed \in App
    BY DEF MembersTyped, NotAMember
<1>3. MembersApproved'
    BY <1>1, <1>2 DEF MembersApproved, MembersFollow, CameIn
<1>4. CustomersApproved'
    BY <1>1 DEF CustomersApproved, CustomersFollow
<1>5. \A m \in App : member[m] # NotAMember =>
          member'[m] # NotAMember /\ file'[member'[m].filed].root = file[member[m].filed].root
    <2>1. \A a \in App : (file[a] \in Files /\ file'[a].status = "approved") => file'[a].root = file[a].root
        BY DEF FilesFollow, Untouched, ThrownAway, Begun, Edited, SameFile, Deleted
    <2> QED BY <2>1, <1>1, <1>2 DEF MembersApproved, MembersFollow, CameIn
<1>6. \A c \in App : customer[c] # NotACustomer =>
          customer'[c] # NotACustomer /\ file'[c].root = file[c].root
    BY <1>1 DEF CustomersApproved, CustomersFollow
<1>7. ASSUME NEW a \in App, file'[a] \in Files
      PROVE  FolderIsMembers(file[a])' /\ FolderIsCustomers(file[a])'
    <2>1. FolderIsMembers(file'[a]) /\ FolderIsCustomers(file'[a])
        <3>1. Begun(a) \/ (file[a] \in Files /\ file'[a].root = file[a].root /\ file'[a].source = file[a].source
                             /\ file'[a].rejoins = file[a].rejoins /\ file'[a].holder = file[a].holder)
            BY <1>7, FileForms DEF FilesFollow, Untouched, ThrownAway, Edited, SameFile, Files, Deleted, Standing
        <3>2. file[a] \in Files => FolderIsMembers(file[a]) /\ FolderIsCustomers(file[a])
            BY FileForms DEF OneFolder
        <3> QED BY <3>1, <3>2 DEF Begun, FolderIsMembers, FolderIsCustomers, NamesMember, NamesCustomer
    <2>2. FolderIsMembers(file[a])'
        BY <2>1, <1>5 DEF FolderIsMembers, NamesMember
    <2>3. FolderIsCustomers(file[a])'
        BY <2>1, <1>6 DEF FolderIsCustomers, NamesCustomer
    <2> QED BY <2>2, <2>3
<1>8. ASSUME NEW a \in App, Exists(a)' PROVE file'[a] \in Files
    BY <1>8 DEF FilesTyped, Exists
<1>9. OneFolder'
    BY <1>7, <1>8 DEF OneFolder
<1>10. NobodyNew'
    <2> SUFFICES ASSUME NEW a \in App, file'[a] \in Files PROVE PersonNotEntered(file'[a])
        BY <1>8 DEF NobodyNew
    <2>1. file[a] \in Files => PersonNotEntered(file[a])
        BY FileForms DEF NobodyNew
    <2> QED BY <2>1, FileForms DEF FilesFollow, Untouched, ThrownAway, Begun, Edited, SameFile, PersonNotEntered, Files, Deleted, Standing
<1> QED BY <1>3, <1>4, <1>9, <1>10

\* What is read of a request, whatever it asks.
LEMMA RequestForms ==
    ASSUME ClerksTyped, NEW q \in Clerk
    PROVE  /\ clerk[q].does = "nothing" => clerk[q] = Away
           /\ clerk[q].does = "convert" => clerk[q].customer \in App
           /\ clerk[q].does = "rejoin" => clerk[q].member \in App
           /\ clerk[q].does = "apply" => clerk[q].nic \in Nic
           /\ clerk[q].does \in OnAFile => clerk[q].app \in App /\ "app" \in DOMAIN clerk[q]
           /\ clerk[q].does \in {"save", "fill"} => clerk[q].nic \in Nic
           /\ clerk[q].does = "submit" => clerk[q].to \in {"submitted", "received"}
           /\ clerk[q].does = "admit" => clerk[q].app \in App /\ clerk[q].moves \in SUBSET (App \X Further)
    BY DEF ClerksTyped, Errands, Away, OnAFile

\* Two requests of one application are one.
LEMMA OneTabApart ==
    ASSUME ClerksTyped, OneTab, NEW q \in Clerk, NEW p \in Clerk,
           clerk[q].does \in OnAFile, clerk[p].does \in OnAFile, clerk[p].app = clerk[q].app
    PROVE  p = q
    BY RequestForms DEF OneTab

\* What was edited still is, or was thrown away, unless no request is left
\* that has it.
EditableFollow ==
    \A a \in App : file[a].status \in Editable =>
        \/ file'[a] = Deleted \/ file'[a].status \in Editable
        \/ \A q \in Clerk : clerk'[q].does \in OnAFile => clerk'[q].app # a

ClerksFollow == \A q \in Clerk : clerk'[q] = clerk[q] \/ RequestStands(q)'

LEMMA RequestsKept ==
    ASSUME AdmInv, FilesFollow, MembersFollow, CustomersFollow, EditableFollow, ClerksFollow
    PROVE  RequestsStand'
<1> USE DEF AdmInv, AdmTyped
<1> SUFFICES ASSUME NEW q \in Clerk, clerk'[q] = clerk[q] PROVE RequestStands(q)'
    BY DEF RequestsStand, ClerksFollow
<1>1. RequestStands(q)
    BY DEF RequestsStand
<1>2. clerk[q].does = "convert" => customer'[clerk[q].customer] # NotACustomer
    BY <1>1, RequestForms DEF RequestStands, CustomersFollow
<1>3. clerk[q].does = "rejoin" => member'[clerk[q].member] # NotAMember
    BY <1>1, RequestForms DEF RequestStands, MembersFollow, CameIn
<1>4. ASSUME NEW a \in App, file[a] = Deleted PROVE file'[a] = Deleted
    BY <1>4, FileForms DEF FilesFollow, Untouched, ThrownAway, Begun, Edited, Standing
<1>5. clerk[q].does \in OnAFile =>
          file'[clerk[q].app] = Deleted \/ file'[clerk[q].app].status \in Editable
    BY <1>1, <1>4, RequestForms DEF RequestStands, EditableFollow
<1>6. ASSUME NEW a \in App, file[a] \in Files
      PROVE  \/ file'[a] = Deleted
             \/ file'[a] \in Files /\ file'[a].kind = file[a].kind /\ file'[a].source = file[a].source
    BY <1>6, FileForms DEF FilesFollow, Untouched, ThrownAway, Begun, Edited, SameFile, Standing
<1>7. clerk[q].does \in {"save", "fill"} =>
          file'[clerk[q].app] = Deleted \/ file'[clerk[q].app].kind # "additional"
    <2> SUFFICES ASSUME clerk[q].does \in {"save", "fill"}
                 PROVE  file'[clerk[q].app] = Deleted \/ file'[clerk[q].app].kind # "additional"
        OBVIOUS
    <2>1. clerk[q].app \in App /\ clerk[q].does \in OnAFile
        BY RequestForms DEF OnAFile
    <2>2. CASE file[clerk[q].app] = Deleted
        BY <2>1, <2>2, <1>4
    <2>3. CASE file[clerk[q].app].status \in Editable /\ file[clerk[q].app].kind # "additional"
        <3>1. file[clerk[q].app] \in Files
            BY <2>1, <2>3, FileForms DEF Editable, Standing
        <3> QED BY <3>1, <2>1, <2>3, <1>6
    <2> QED BY <2>1, <2>2, <2>3, <1>1 DEF RequestStands
<1>8. clerk[q].does = "admit" =>
          file'[clerk[q].app] = Deleted \/ (file'[clerk[q].app] # NoFile /\ file'[clerk[q].app].source # None)
    <2> SUFFICES ASSUME clerk[q].does = "admit"
                 PROVE  file'[clerk[q].app] = Deleted \/ (file'[clerk[q].app] # NoFile /\ file'[clerk[q].app].source # None)
        OBVIOUS
    <2>1. clerk[q].app \in App
        BY RequestForms
    <2>2. CASE file[clerk[q].app] = Deleted
        BY <2>1, <2>2, <1>4
    <2>3. CASE file[clerk[q].app] \in Files /\ file[clerk[q].app].source # None
        BY <2>1, <2>3, <1>6 DEF Files, NoFile, Standing
    <2> QED BY <2>1, <2>2, <2>3, <1>1, FileForms DEF RequestStands
<1>9. clerk[q].does = "admit" => \A x, y \in clerk[q].moves : x[2] = y[2] => x = y
    BY <1>1 DEF RequestStands
<1> QED BY <1>2, <1>3, <1>5, <1>7, <1>8, <1>9 DEF RequestStands

\* Nobody is cleared but who was, as they were, or has no NIC.
ClearedFollow ==
    \A a \in App : Cleared(a)' =>
        \/ Cleared(a) /\ file'[a].nic = file[a].nic /\ file'[a].root = file[a].root
        \/ file'[a].nic = Blank

LEMMA ClearedKept ==
    ASSUME ClearedApart, ClearedFollow
    PROVE  ClearedApart'
<1> HIDE DEF Cleared
<1> SUFFICES ASSUME NEW a \in App, NEW b \in App, Cleared(a)', Cleared(b)', file'[a].nic = file'[b].nic, file'[a].nic # Blank
             PROVE  file'[a].root = file'[b].root
    BY DEF ClearedApart
<1> QED BY DEF ClearedApart, ClearedFollow

\* Accounts nobody touches are whose they were.
LEMMA HeldStill ==
    ASSUME AdmInv, held' = held, MembersFollow, CustomersFollow
    PROVE  HeldTyped' /\ OwnersThere' /\ OneAccountAType'
<1>1. HeldTyped'
    BY DEF AdmInv, AdmTyped, HeldTyped
<1>2. OwnersThere'
    BY DEF AdmInv, OwnersThere, MembersFollow, CustomersFollow, CameIn
<1>3. OneAccountAType'
    BY DEF AdmInv, OneAccountAType
<1> QED BY <1>1, <1>2, <1>3

\* A step that makes nobody, and touches no account.
LEMMA OfPaper ==
    ASSUME AdmInv, UNCHANGED <<member, customer, held>>,
           FilesTyped', ClerksTyped', FilesFollow, EditableFollow, ClerksFollow, ClearedApart'
    PROVE  AdmInv'
<1>1. MembersFollow /\ CustomersFollow
    BY DEF MembersFollow, CustomersFollow
<1>2. MembersApproved' /\ CustomersApproved' /\ OneFolder' /\ NobodyNew'
    BY <1>1, FolderKept
<1>3. RequestsStand'
    BY <1>1, RequestsKept
<1>4. HeldTyped' /\ OwnersThere' /\ OneAccountAType'
    BY <1>1, HeldStill
<1>5. MembersTyped' /\ CustomersTyped'
    BY DEF AdmInv, AdmTyped, MembersTyped, CustomersTyped
<1> QED BY <1>2, <1>3, <1>4, <1>5 DEF AdmInv, AdmTyped

\* A step of a request alone; one that begins no submission clears nobody.
LEMMA OfRequests ==
    ASSUME AdmInv, UNCHANGED <<file, member, customer, held>>, ClerksTyped', ClerksFollow,
           \A q \in Clerk : clerk'[q].does = "submit" => clerk'[q] = clerk[q]
    PROVE  AdmInv'
<1>1. FilesTyped' /\ FilesFollow /\ EditableFollow
    BY DEF AdmInv, AdmTyped, FilesTyped, FilesFollow, Untouched, EditableFollow
<1>2. ClearedFollow
    BY DEF ClearedFollow, Cleared, Exists
<1>3. ClearedApart'
    BY <1>2, ClearedKept DEF AdmInv
<1> QED BY <1>1, <1>3, OfPaper

\* A new row, in the folder of whoever it names.
LEMMA OfInsertion ==
    ASSUME AdmInv, UNCHANGED <<member, customer, held>>, NEW a \in App, NEW form \in Files,
           form.status = "draft", FolderIsMembers(form), FolderIsCustomers(form), PersonNotEntered(form),
           Inserts(a, form), ClerksTyped', ClerksFollow,
           \A q \in Clerk : clerk'[q].does = "submit" => clerk'[q] = clerk[q]
    PROVE  AdmInv'
<1> USE DEF AdmInv, AdmTyped
<1>1. file[a] = NoFile /\ file' = [file EXCEPT ![a] = form]
    BY DEF Inserts
<1>2. file' \in [App -> Files \cup {NoFile, Deleted}] /\ file'[a] = form
    BY <1>1 DEF FilesTyped
<1>3. FilesFollow
    <2>1. Begun(a)
        BY <1>1, <1>2 DEF Begun
    <2>2. \A x \in App \ {a} : Untouched(x)
        BY <1>1 DEF FilesTyped, Untouched
    <2> QED BY <2>1, <2>2 DEF FilesFollow
<1>4. \A x \in App : x # a => file'[x] = file[x]
    BY <1>1 DEF FilesTyped
<1>5. file[a].status = "absent"
    BY <1>1 DEF NoFile
<1>6. EditableFollow
    BY <1>4, <1>5 DEF EditableFollow, Editable
<1>7. ClearedFollow
    <2>1. \A q \in Clerk : clerk[q].does = "submit" => clerk[q].app # a
        BY <1>1, <1>5 DEF RequestsStand, RequestStands, OnAFile, NoFile, Deleted, Editable
    <2>2. ~Cleared(a)'
        BY <1>2, <2>1 DEF Cleared
    <2>3. \A x \in App : x # a /\ Cleared(x)' => Cleared(x)
        BY <1>4 DEF Cleared, Exists
    <2> QED BY <2>2, <2>3, <1>4 DEF ClearedFollow
<1>8. ClearedApart'
    BY <1>7, ClearedKept
<1>9. FilesTyped'
    BY <1>2 DEF FilesTyped
<1> QED BY <1>3, <1>6, <1>8, <1>9, OfPaper

\* A request that has become another.
LEMMA RequestMoves ==
    ASSUME AdmInv, NEW q \in Clerk, NEW request \in Errands, At(q, request), RequestStands(q)'
    PROVE  ClerksTyped' /\ ClerksFollow /\ (\A p \in Clerk : p # q => clerk'[p] = clerk[p]) /\ clerk'[q] = request
    BY DEF AdmInv, AdmTyped, ClerksTyped, ClerksFollow, At

LEMMA RequestEnds ==
    ASSUME AdmInv, NEW q \in Clerk, At(q, Away)
    PROVE  /\ ClerksTyped' /\ ClerksFollow
           /\ \A p \in Clerk : clerk'[p].does = "submit" => clerk'[p] = clerk[p]
           /\ \A p \in Clerk : p # q => clerk'[p] = clerk[p]
           /\ clerk'[q] = Away
<1>1. Away \in Errands
    BY DEF Errands
<1>2. clerk' = [clerk EXCEPT ![q] = Away] /\ clerk \in [Clerk -> Errands]
    BY DEF At, AdmInv, AdmTyped, ClerksTyped
<1>3. clerk'[q] = Away /\ \A p \in Clerk : p # q => clerk'[p] = clerk[p]
    BY <1>2
<1>4. RequestStands(q)'
    BY <1>3 DEF RequestStands, Away, OnAFile
<1>5. Away.does # "submit"
    BY DEF Away
<1> QED BY <1>1, <1>3, <1>4, <1>5, RequestMoves

LEMMA RequestsUntouched ==
    ASSUME AdmInv, UNCHANGED clerk
    PROVE  ClerksTyped' /\ ClerksFollow /\ \A p \in Clerk : clerk'[p].does = "submit" => clerk'[p] = clerk[p]
    BY DEF AdmInv, AdmTyped, ClerksTyped, ClerksFollow

LEMMA NewFileForm ==
    ASSUME NEW a \in App
    PROVE  /\ NewFile(a) \in Files /\ NewFile(a).status = "draft" /\ NewFile(a).nic = Blank
           /\ NewFile(a).rejoins = None /\ NewFile(a).holder = None /\ NewFile(a).source = None
           /\ NewFile(a).kind = "membership"
    BY DEF NewFile, Files, Standing, Owners

\* Nobody is named by nothing.
LEMMA NamesNobody ==
    ASSUME NEW form
    PROVE  /\ (form.rejoins = None /\ form.holder = None) => FolderIsMembers(form)
           /\ (form.source = None /\ form.holder = None) => FolderIsCustomers(form)
           /\ (\E c \in App : form.holder = AsCustomer(c)) /\ form.rejoins = None => FolderIsMembers(form)
           /\ (\E m \in App : form.holder = AsMember(m)) /\ form.source = None => FolderIsCustomers(form)
<1>1. \A m, c \in App : AsMember(m) # None /\ AsCustomer(c) # None /\ AsMember(m) # AsCustomer(c)
    BY DEF None, AsMember, AsCustomer
<1> QED BY <1>1 DEF FolderIsMembers, FolderIsCustomers, NamesMember, NamesCustomer

LEMMA StartStep ==
    ASSUME AdmInv, NEW a \in App, StartApplication(a) \/ \E n \in Nic : StartApplicationWithValues(a, n)
    PROVE  AdmInv'
<1>1. PICK form : /\ form = NewFile(a) \/ \E n \in Nic : form = [NewFile(a) EXCEPT !.nic = n]
                  /\ Inserts(a, form) /\ UNCHANGED <<member, customer, held, clerk>>
    BY DEF StartApplication, StartApplicationWithValues
<1>2. /\ form \in Files /\ form.status = "draft" /\ form.rejoins = None /\ form.holder = None /\ form.source = None
      /\ form.kind = "membership"
    <2>1. CASE form = NewFile(a)
        BY <2>1, NewFileForm
    <2>2. CASE \E n \in Nic : form = [NewFile(a) EXCEPT !.nic = n]
        BY <2>2 DEF NewFile, Files, Standing, Owners
    <2> QED BY <1>1, <2>1, <2>2
<1>3. FolderIsMembers(form) /\ FolderIsCustomers(form) /\ PersonNotEntered(form)
    BY <1>2, NamesNobody DEF PersonNotEntered
<1>4. ClerksTyped' /\ ClerksFollow /\ \A p \in Clerk : clerk'[p].does = "submit" => clerk'[p] = clerk[p]
    BY <1>1, RequestsUntouched
<1> QED BY <1>1, <1>2, <1>3, <1>4, OfInsertion

\* What members and customers have on file.
LEMMA OnFile ==
    ASSUME AdmInv, NEW x \in App
    PROVE  /\ member[x] # NotAMember =>
                member[x].filed \in App /\ file[member[x].filed] \in Files /\ file[member[x].filed].root \in App
           /\ customer[x] # NotACustomer => file[x] \in Files /\ file[x].root \in App
           /\ member[x].status \in {"active", "resigned"} => member[x] # NotAMember
           /\ customer[x].status \in {"active", "closed", "converted"} => customer[x] # NotACustomer
<1> USE DEF AdmInv, AdmTyped
<1>1. member[x] # NotAMember => member[x].filed \in App
    BY DEF MembersTyped
<1>2. \A y \in App : file[y].status = "approved" => file[y] \in Files /\ file[y].root \in App
    BY FileForms DEF Standing
<1>3. NotAMember.status = "absent" /\ NotACustomer.status = "absent"
    BY DEF NotAMember, NotACustomer
<1> QED BY <1>1, <1>2, <1>3 DEF MembersApproved, CustomersApproved

\* A member's name is theirs alone; so is a customer's.
LEMMA Named ==
    /\ \A m, o \in App : AsMember(m) = AsMember(o) => m = o
    /\ \A c, o \in App : AsCustomer(c) = AsCustomer(o) => c = o
    /\ \A m, c \in App : AsMember(m) # None /\ AsCustomer(c) # None /\ AsMember(m) # AsCustomer(c)
    /\ \A m \in App : AsMember(m) \in Owners /\ AsMember(m) \in Members /\ AsCustomer(m) \in Owners /\ AsCustomer(m) \in Customers
    BY DEF AsMember, AsCustomer, None, Owners, Members, Customers

LEMMA FurtherStep ==
    ASSUME AdmInv, NEW a \in App, NEW x \in App, NEW t \in Further,
           StartAdditional(a, x, t) \/ StartCustomerAdditional(a, x, t) \/ StartCustomerAccount(a, t)
    PROVE  AdmInv'
<1>1. UNCHANGED <<member, customer, held, clerk>>
    BY DEF StartAdditional, StartCustomerAdditional, StartCustomerAccount
<1>2. ClerksTyped' /\ ClerksFollow /\ \A p \in Clerk : clerk'[p].does = "submit" => clerk'[p] = clerk[p]
    BY <1>1, RequestsUntouched
<1>3. CASE StartAdditional(a, x, t)
    <2>1. member[x] # NotAMember
        BY <1>3, OnFile DEF StartAdditional, CanOpenAccount
    <2>2. PICK root \in App : root = file[member[x].filed].root
        BY <2>1, OnFile
    <2>3. PICK form : form = [NewFile(a) EXCEPT !.kind = "additional", !.opens = {t}, !.holder = AsMember(x), !.root = root]
        OBVIOUS
    <2>4. /\ form \in Files /\ form.status = "draft" /\ form.rejoins = None /\ form.holder = AsMember(x)
          /\ form.source = None /\ form.nic = Blank /\ form.root = root
        BY <2>3, Named DEF NewFile, Files, Standing
    <2>5. FolderIsMembers(form)
        BY <2>1, <2>2, <2>4, Named DEF FolderIsMembers, NamesMember
    <2>6. FolderIsCustomers(form) /\ PersonNotEntered(form)
        BY <2>4, NamesNobody DEF PersonNotEntered
    <2>7. Inserts(a, form)
        BY <1>3, <2>2, <2>3 DEF StartAdditional
    <2> QED BY <1>1, <1>2, <2>4, <2>5, <2>6, <2>7, OfInsertion
<1>4. CASE StartCustomerAdditional(a, x, t)
    <2>1. customer[x] # NotACustomer
        BY <1>4, OnFile DEF StartCustomerAdditional, MayHaveMore
    <2>2. PICK root \in App : root = file[x].root
        BY <2>1, OnFile
    <2>3. PICK form : form = [NewFile(a) EXCEPT !.kind = "additional", !.opens = {t}, !.holder = AsCustomer(x), !.root = root]
        OBVIOUS
    <2>4. /\ form \in Files /\ form.status = "draft" /\ form.rejoins = None /\ form.holder = AsCustomer(x)
          /\ form.source = None /\ form.nic = Blank /\ form.root = root
        BY <2>3, Named DEF NewFile, Files, Standing
    <2>5. FolderIsCustomers(form)
        BY <2>1, <2>2, <2>4, Named DEF FolderIsCustomers, NamesCustomer
    <2>6. FolderIsMembers(form) /\ PersonNotEntered(form)
        BY <2>4, NamesNobody DEF PersonNotEntered
    <2>7. Inserts(a, form)
        BY <1>4, <2>2, <2>3 DEF StartCustomerAdditional
    <2> QED BY <1>1, <1>2, <2>4, <2>5, <2>6, <2>7, OfInsertion
<1>5. CASE StartCustomerAccount(a, t)
    <2>1. PICK form : form = [NewFile(a) EXCEPT !.kind = "customer", !.opens = {t}]
        OBVIOUS
    <2>2. /\ form \in Files /\ form.status = "draft" /\ form.rejoins = None /\ form.holder = None
          /\ form.source = None /\ form.nic = Blank
        BY <2>1 DEF NewFile, Files, Standing, Owners
    <2>3. FolderIsMembers(form) /\ FolderIsCustomers(form) /\ PersonNotEntered(form)
        BY <2>2, NamesNobody DEF PersonNotEntered
    <2>4. Inserts(a, form)
        BY <1>5, <2>1 DEF StartCustomerAccount
    <2> QED BY <1>1, <1>2, <2>2, <2>3, <2>4, OfInsertion
<1> QED BY <1>3, <1>4, <1>5

LEMMA CommitStartFromCustomerStep ==
    ASSUME AdmInv, NEW q \in Clerk, NEW a \in App, CommitStartFromCustomer(q, a)
    PROVE  AdmInv'
<1> USE DEF AdmInv, AdmTyped
<1>1. PICK c \in App : c = clerk[q].customer
    BY RequestForms DEF CommitStartFromCustomer
<1>2. customer[c] # NotACustomer
    BY <1>1 DEF RequestsStand, RequestStands, CommitStartFromCustomer
<1>3. PICK root \in App : root = file[c].root
    BY <1>2, OnFile
<1>4. PICK nic \in Nic \cup {Blank} : nic = file[c].nic
    BY <1>2, OnFile DEF Files
<1>5. PICK form : form = [NewFile(a) EXCEPT !.nic = nic, !.source = AsCustomer(c), !.root = root]
    OBVIOUS
<1>6. /\ form \in Files /\ form.status = "draft" /\ form.rejoins = None /\ form.holder = None
      /\ form.source = AsCustomer(c) /\ form.kind = "membership" /\ form.root = root
    BY <1>5, Named DEF NewFile, Files, Standing, Owners
<1>7. FolderIsCustomers(form)
    BY <1>2, <1>3, <1>6, Named DEF FolderIsCustomers, NamesCustomer
<1>8. FolderIsMembers(form) /\ PersonNotEntered(form)
    BY <1>6, NamesNobody DEF PersonNotEntered
<1>9. Inserts(a, form) /\ At(q, Away) /\ UNCHANGED <<member, customer, held>>
    BY <1>1, <1>3, <1>4, <1>5 DEF CommitStartFromCustomer
<1>10. ClerksTyped' /\ ClerksFollow /\ \A p \in Clerk : clerk'[p].does = "submit" => clerk'[p] = clerk[p]
    BY <1>9, RequestEnds
<1> QED BY <1>6, <1>7, <1>8, <1>9, <1>10, OfInsertion

LEMMA CommitStartRejoinStep ==
    ASSUME AdmInv, NEW q \in Clerk, NEW a \in App, CommitStartRejoin(q, a)
    PROVE  AdmInv'
<1> USE DEF AdmInv, AdmTyped
<1>1. PICK m \in App : m = clerk[q].member
    BY RequestForms DEF CommitStartRejoin
<1>2. member[m] # NotAMember
    BY <1>1 DEF RequestsStand, RequestStands, CommitStartRejoin
<1>3. PICK root \in App : root = file[member[m].filed].root
    BY <1>2, OnFile
<1>4. PICK nic \in Nic \cup {Blank} : nic = file[member[m].filed].nic
    BY <1>2, OnFile DEF Files
<1>5. PICK form : form = [NewFile(a) EXCEPT !.nic = nic, !.rejoins = AsMember(m), !.root = root]
    OBVIOUS
<1>6. /\ form \in Files /\ form.status = "draft" /\ form.rejoins = AsMember(m) /\ form.holder = None
      /\ form.source = None /\ form.kind = "membership" /\ form.root = root
    BY <1>5, Named DEF NewFile, Files, Standing, Owners
<1>7. FolderIsMembers(form)
    BY <1>2, <1>3, <1>6, Named DEF FolderIsMembers, NamesMember
<1>8. FolderIsCustomers(form) /\ PersonNotEntered(form)
    BY <1>6, NamesNobody DEF PersonNotEntered
<1>9. Inserts(a, form) /\ At(q, Away) /\ UNCHANGED <<member, customer, held>>
    BY <1>1, <1>3, <1>4, <1>5 DEF CommitStartRejoin
<1>10. ClerksTyped' /\ ClerksFollow /\ \A p \in Clerk : clerk'[p].does = "submit" => clerk'[p] = clerk[p]
    BY <1>9, RequestEnds
<1> QED BY <1>6, <1>7, <1>8, <1>9, <1>10, OfInsertion

\* An applicant's row from the member app, or from the website.
LEMMA InsertStep ==
    ASSUME AdmInv, NEW q \in Clerk, NEW a \in App, InsertOnline(q, a) \/ InsertPublic(q, a)
    PROVE  AdmInv'
<1> USE DEF AdmInv, AdmTyped
<1>1. PICK request \in Errands : /\ request \in [does : {"tie"}, app : {a}] \cup [does : {"fill"}, app : {a}, nic : Nic]
                                  /\ At(q, request)
    <2>1. CASE InsertOnline(q, a)
        <3>1. [does |-> "tie", app |-> a] \in Errands
            BY DEF Errands
        <3> QED BY <2>1, <3>1 DEF InsertOnline
    <2>2. CASE InsertPublic(q, a)
        <3>1. clerk[q].nic \in Nic
            BY <2>2, RequestForms DEF InsertPublic
        <3>2. [does |-> "fill", app |-> a, nic |-> clerk[q].nic] \in Errands
            BY <3>1 DEF Errands
        <3> QED BY <2>2, <3>1, <3>2 DEF InsertPublic
    <2> QED BY <2>1, <2>2
<1>2. request.does \in {"tie", "fill"} /\ request.app = a
    BY <1>1
<1>3. Inserts(a, NewFile(a)) /\ UNCHANGED <<member, customer, held>>
    BY DEF InsertOnline, InsertPublic
<1>4. PICK form \in Files : form = NewFile(a) /\ form.status = "draft" /\ form.kind = "membership"
    BY NewFileForm
<1>5. file'[a] = form
    BY <1>3, <1>4 DEF Inserts, FilesTyped
<1>6. RequestStands(q)'
    <2>1. clerk'[q] = request
        BY <1>1 DEF At, ClerksTyped
    <2> QED BY <2>1, <1>2, <1>4, <1>5 DEF RequestStands, OnAFile, Editable
<1>7. ClerksTyped' /\ ClerksFollow /\ \A p \in Clerk : clerk'[p].does = "submit" => clerk'[p] = clerk[p]
    BY <1>1, <1>2, <1>6, RequestMoves
<1>8. FolderIsMembers(form) /\ FolderIsCustomers(form) /\ PersonNotEntered(form)
    BY <1>4, NewFileForm, NamesNobody DEF PersonNotEntered
<1> QED BY <1>3, <1>4, <1>7, <1>8, OfInsertion

\* What a request that changes nothing else becomes.
LEMMA RequestAlone ==
    ASSUME AdmInv, NEW q \in Clerk, NEW request \in Errands, request.does # "submit",
           At(q, request), UNCHANGED <<file, member, customer, held>>, RequestStands(q)'
    PROVE  AdmInv'
<1>1. ClerksTyped' /\ ClerksFollow /\ (\A p \in Clerk : p # q => clerk'[p] = clerk[p]) /\ clerk'[q] = request
    BY RequestMoves
<1>2. \A p \in Clerk : clerk'[p].does = "submit" => clerk'[p] = clerk[p]
    BY <1>1
<1> QED BY <1>1, <1>2, OfRequests

LEMMA BeginStep ==
    ASSUME AdmInv, NEW q \in Clerk, NEW x \in App,
           \/ BeginStartFromCustomer(q, x) \/ BeginStartRejoin(q, x)
           \/ \E n \in Nic : BeginSave(q, x, n) \/ BeginSaveOnline(q, x, n)
    PROVE  AdmInv'
<1> USE DEF AdmInv, AdmTyped
<1>0. \A request \in Errands : At(q, request) => clerk'[q] = request
    BY DEF At, ClerksTyped
<1>1. CASE BeginStartFromCustomer(q, x)
    <2>1. PICK request : request = [does |-> "convert", customer |-> x]
        OBVIOUS
    <2>2. request \in Errands /\ request.does = "convert" /\ request.customer = x
        BY <2>1 DEF Errands
    <2>3. At(q, request) /\ UNCHANGED <<file, member, customer, held>> /\ customer[x] # NotACustomer
        BY <1>1, <2>1, OnFile DEF BeginStartFromCustomer, MayHaveMore
    <2>4. RequestStands(q)'
        BY <1>0, <2>2, <2>3 DEF RequestStands, OnAFile
    <2> QED BY <2>2, <2>3, <2>4, RequestAlone
<1>2. CASE BeginStartRejoin(q, x)
    <2>1. PICK request : request = [does |-> "rejoin", member |-> x]
        OBVIOUS
    <2>2. request \in Errands /\ request.does = "rejoin" /\ request.member = x
        BY <2>1 DEF Errands
    <2>3. At(q, request) /\ UNCHANGED <<file, member, customer, held>> /\ member[x] # NotAMember
        BY <1>2, <2>1, OnFile DEF BeginStartRejoin
    <2>4. RequestStands(q)'
        BY <1>0, <2>2, <2>3 DEF RequestStands, OnAFile
    <2> QED BY <2>2, <2>3, <2>4, RequestAlone
<1>3. CASE \E n \in Nic : BeginSave(q, x, n) \/ BeginSaveOnline(q, x, n)
    <2>1. PICK n \in Nic : BeginSave(q, x, n)
        BY <1>3 DEF BeginSaveOnline
    <2>2. PICK request : request = [does |-> "save", app |-> x, nic |-> n]
        OBVIOUS
    <2>3. request \in Errands /\ request.does = "save" /\ request.app = x
        BY <2>2 DEF Errands
    <2>4. /\ At(q, request) /\ UNCHANGED <<file, member, customer, held>>
          /\ file[x].status \in Editable /\ file[x].kind # "additional"
        BY <2>1, <2>2 DEF BeginSave, MayEdit, Editable
    <2>5. RequestStands(q)'
        BY <1>0, <2>3, <2>4 DEF RequestStands, OnAFile
    <2> QED BY <2>3, <2>4, <2>5, RequestAlone
<1> QED BY <1>1, <1>2, <1>3

LEMMA BeginApplyStep ==
    ASSUME AdmInv, NEW q \in Clerk, BeginStartOnline(q) \/ \E n \in Nic : BeginPublic(q, n)
    PROVE  AdmInv'
<1> USE DEF AdmInv, AdmTyped
<1>1. PICK request : /\ request \in {[does |-> "insert"]} \cup [does : {"apply"}, nic : Nic]
                     /\ At(q, request) /\ UNCHANGED <<file, member, customer, held>>
    BY DEF BeginStartOnline, BeginPublic
<1>2. request \in Errands /\ request.does \in {"insert", "apply"}
    BY <1>1 DEF Errands
<1>3. clerk'[q] = request
    BY <1>1, <1>2 DEF At, ClerksTyped
<1>4. RequestStands(q)'
    BY <1>2, <1>3 DEF RequestStands, OnAFile
<1> QED BY <1>1, <1>2, <1>4, RequestAlone

LEMMA ClerkGoneStep ==
    ASSUME AdmInv, NEW q \in Clerk, ClerkGone(q)
    PROVE  AdmInv'
<1>1. At(q, Away) /\ UNCHANGED <<file, member, customer, held>>
    BY DEF ClerkGone
<1> QED BY <1>1, RequestEnds, OfRequests

\* The accounts a membership is to take over, read before: a customer's, of
\* different types, none of which a membership opens.
LEMMA BeginCreateStep ==
    ASSUME AdmInv, NEW q \in Clerk, NEW a \in App, BeginCreateFromCustomer(q, a)
    PROVE  AdmInv'
<1> USE DEF AdmInv, AdmTyped
<1>1. file[a].status = "submitted" /\ file[a].source # None /\ file[a] \in Files
    BY FileForms DEF BeginCreateFromCustomer, Standing
<1>2. PICK c \in App : file[a].source = AsCustomer(c)
    BY <1>1 DEF Files, Customers
<1>3. PICK moves : moves = AccountsOf(AsCustomer(c))
    OBVIOUS
<1>4. /\ moves \subseteq Slots
      /\ \A x \in moves : held[x].owner = AsCustomer(c)
    BY <1>3 DEF AccountsOf, HeldTyped
<1>5. moves \subseteq App \X Further
    BY <1>4 DEF OwnersThere, Slots
<1>6. \A x, y \in moves : x[2] = y[2] => x = y
    BY <1>4 DEF OneAccountAType, HeldTyped, AsCustomer, None
<1>7. PICK request : request = [does |-> "admit", app |-> a, moves |-> moves]
    OBVIOUS
<1>8. request \in Errands /\ request.does = "admit" /\ request.app = a /\ request.moves = moves
    BY <1>5, <1>7 DEF Errands
<1>9. At(q, request) /\ UNCHANGED <<file, member, customer, held>>
    BY <1>2, <1>3, <1>7 DEF BeginCreateFromCustomer
<1>10. clerk'[q] = request
    BY <1>8, <1>9 DEF At, ClerksTyped
<1>11. file[a] # NoFile
    BY <1>1 DEF NoFile
<1>12. RequestStands(q)'
    BY <1>1, <1>6, <1>8, <1>9, <1>10, <1>11 DEF RequestStands, OnAFile
<1> QED BY <1>8, <1>9, <1>12, RequestAlone

\* Whatever has an application's NIC and is not in its folder is not cleared.
LEMMA OnlyItsFolder ==
    ASSUME AdmInv, NEW a \in App, file[a] \in Files, NoProblems(a), file[a].nic # Blank,
           NEW b \in App, Cleared(b), file[b].nic = file[a].nic
    PROVE  file[b].root = file[a].root
<1> USE DEF AdmInv, AdmTyped
<1>1. Carries(b)
    <2>1. CASE file[b].status \in {"submitted", "approved"}
        BY <2>1, FileForms DEF Carries, Standing
    <2>2. CASE Exists(b) /\ \E q \in Clerk : clerk[q].does = "submit" /\ clerk[q].app = b
        BY <2>2 DEF Carries, RequestsStand, RequestStands, OnAFile, Editable, Exists
    <2> QED BY <2>1, <2>2 DEF Cleared
<1>2. file[a].kind # "additional"
    BY FileForms DEF NobodyNew, PersonNotEntered
<1>3. b = a \/ file[b].root \in OwnRoots(a)
    BY <1>1, <1>2 DEF NoProblems, NicTaken
<1>4. \A x \in App : Exists(x) => FolderIsMembers(file[x]) /\ FolderIsCustomers(file[x])
    BY DEF OneFolder
<1>5. Exists(a)
    BY FileForms
<1>6. ASSUME NEW x \in App, Exists(x), file[a].rejoins # None,
             x = member[file[a].rejoins.of].filed \/ file[a].rejoins \in {file[x].rejoins, file[x].holder}
      PROVE  file[x].root = file[a].root
    <2>1. PICK m \in App : file[a].rejoins = AsMember(m)
        BY <1>6 DEF Files, Members
    <2>2. file[a].rejoins.of = m
        BY <2>1 DEF AsMember
    <2>3. file[a].root = file[member[m].filed].root
        BY <1>4, <1>5, <2>1 DEF FolderIsMembers, NamesMember
    <2>4. x # member[m].filed => file[x].root = file[member[m].filed].root
        BY <1>4, <1>6, <2>1, <2>2 DEF FolderIsMembers, NamesMember
    <2> QED BY <2>3, <2>4
<1>7. ASSUME NEW x \in App, Exists(x), file[a].source # None,
             x = file[a].source.of \/ file[x].holder = file[a].source
      PROVE  file[x].root = file[a].root
    <2>1. PICK c \in App : file[a].source = AsCustomer(c)
        BY <1>7 DEF Files, Customers
    <2>2. file[a].source.of = c
        BY <2>1 DEF AsCustomer
    <2>3. file[a].root = file[c].root
        BY <1>4, <1>5, <2>1 DEF FolderIsCustomers, NamesCustomer
    <2>4. x # c => file[x].root = file[c].root
        BY <1>4, <1>7, <2>1, <2>2 DEF FolderIsCustomers, NamesCustomer
    <2> QED BY <2>3, <2>4
<1>8. OwnRoots(a) = {file[a].root}
    BY <1>6, <1>7 DEF OwnRoots
<1> QED BY <1>3, <1>8

LEMMA BeginSubmitStep ==
    ASSUME AdmInv, NEW q \in Clerk, NEW a \in App, BeginSubmit(q, a) \/ BeginSubmitOnline(q, a)
    PROVE  AdmInv'
<1> USE DEF AdmInv, AdmTyped
<1>1. PICK to \in {"submitted", "received"} :
          At(q, [does |-> "submit", app |-> a, to |-> to]) /\ UNCHANGED <<file, member, customer, held>>
    BY DEF BeginSubmit, BeginSubmitOnline
<1>2. file[a].status \in Editable /\ NoProblems(a) /\ clerk[q] = Away
    BY DEF BeginSubmit, BeginSubmitOnline, MayEdit, ApplicantMayEdit, Editable
<1>3. file[a] \in Files
    BY <1>2, FileForms DEF Editable, Standing
<1>4. PICK request : request = [does |-> "submit", app |-> a, to |-> to]
    OBVIOUS
<1>5. request \in Errands /\ request.does = "submit" /\ request.app = a /\ At(q, request)
    BY <1>1, <1>4 DEF Errands
<1>6. clerk'[q] = request /\ \A p \in Clerk : p # q => clerk'[p] = clerk[p]
    BY <1>5 DEF At, ClerksTyped
<1>7. RequestStands(q)'
    BY <1>1, <1>2, <1>5, <1>6 DEF RequestStands, OnAFile
<1>8. ClerksTyped' /\ ClerksFollow
    BY <1>5, <1>7, RequestMoves
<1>9. FilesTyped' /\ FilesFollow /\ EditableFollow
    BY <1>1 DEF FilesTyped, FilesFollow, Untouched, EditableFollow
<1>10. \A b \in App : Cleared(b)' => Cleared(b) \/ b = a
    BY <1>1, <1>5, <1>6 DEF Cleared, Exists
<1>11. ClearedApart'
    <2> SUFFICES ASSUME NEW b \in App, NEW d \in App, Cleared(b) \/ b = a, Cleared(d) \/ d = a,
                        file[b].nic = file[d].nic, file[b].nic # Blank
                 PROVE  file[b].root = file[d].root
        BY <1>1, <1>10 DEF ClearedApart
    <2>1. CASE Cleared(b) /\ Cleared(d)
        BY <2>1 DEF ClearedApart
    <2>2. CASE b = a /\ Cleared(d)
        BY <2>2, <1>2, <1>3, OnlyItsFolder
    <2>3. CASE Cleared(b) /\ d = a
        BY <2>3, <1>2, <1>3, OnlyItsFolder
    <2> QED BY <2>1, <2>2, <2>3
<1> QED BY <1>1, <1>8, <1>9, <1>11, OfPaper

\* A row edited: whoever has it open still finds what may be edited, and it
\* is cleared under the NIC it was cleared under.
LEMMA OfEdit ==
    ASSUME AdmInv, UNCHANGED <<member, customer, held>>, NEW a \in App, file[a] \in Files, NEW form \in Files,
           file' = [file EXCEPT ![a] = form],
           form.kind = file[a].kind, form.root = file[a].root, form.opens = file[a].opens,
           form.source = file[a].source, form.rejoins = file[a].rejoins, form.holder = file[a].holder,
           file[a].kind = "additional" => form.nic = file[a].nic,
           file[a].status = "approved" => form.status = "approved",
           file[a].status \in Editable =>
               form.status \in Editable \/ \A p \in Clerk : clerk'[p].does \in OnAFile => clerk'[p].app # a,
           \/ form.nic = file[a].nic /\ (form.status \in {"submitted", "approved"} => Cleared(a))
           \/ ~Cleared(a)',
           ClerksTyped', ClerksFollow,
           \A p \in Clerk : clerk'[p].does = "submit" => clerk'[p] = clerk[p]
    PROVE  AdmInv'
<1> USE DEF AdmInv, AdmTyped
<1>1. file' \in [App -> Files \cup {NoFile, Deleted}] /\ file'[a] = form /\ \A x \in App : x # a => file'[x] = file[x]
    BY DEF FilesTyped
<1>2. FilesFollow
    <2>1. Edited(a)
        BY <1>1 DEF Edited, SameFile
    <2> QED BY <2>1, <1>1 DEF FilesFollow, Untouched
<1>3. EditableFollow
    BY <1>1 DEF EditableFollow
<1>4. ClearedFollow
    <2>1. \A x \in App : x # a /\ Cleared(x)' => Cleared(x)
        BY <1>1 DEF Cleared, Exists
    <2>2. Cleared(a)' => Cleared(a) /\ form.nic = file[a].nic
        BY <1>1, FileForms DEF Cleared
    <2> QED BY <1>1, <2>1, <2>2 DEF ClearedFollow
<1>5. ClearedApart'
    BY <1>4, ClearedKept
<1>6. FilesTyped'
    BY <1>1 DEF FilesTyped
<1> QED BY <1>2, <1>3, <1>5, <1>6, OfPaper

\* A draft thrown away; a request that has it finds it gone.
LEMMA OfDeletion ==
    ASSUME AdmInv, UNCHANGED <<member, customer, held>>, NEW a \in App, file[a].status = "draft",
           file' = [file EXCEPT ![a] = Deleted], ClerksTyped', ClerksFollow,
           \A p \in Clerk : clerk'[p].does = "submit" => clerk'[p] = clerk[p]
    PROVE  AdmInv'
<1> USE DEF AdmInv, AdmTyped
<1>1. file' \in [App -> Files \cup {NoFile, Deleted}] /\ file'[a] = Deleted /\ \A x \in App : x # a => file'[x] = file[x]
    BY DEF FilesTyped
<1>2. FilesFollow
    BY <1>1 DEF FilesFollow, Untouched, ThrownAway
<1>3. EditableFollow
    BY <1>1 DEF EditableFollow
<1>4. ClearedFollow
    <2>1. \A x \in App : x # a /\ Cleared(x)' => Cleared(x)
        BY <1>1 DEF Cleared, Exists
    <2>2. ~Cleared(a)'
        BY <1>1 DEF Cleared, Exists, Deleted
    <2> QED BY <1>1, <2>1, <2>2 DEF ClearedFollow
<1>5. ClearedApart'
    BY <1>4, ClearedKept
<1>6. FilesTyped'
    BY <1>1 DEF FilesTyped
<1> QED BY <1>2, <1>3, <1>5, <1>6, OfPaper

\* What a request that goes on finds: its row, still open.
LEMMA StillOpen ==
    ASSUME AdmInv, NEW q \in Clerk, clerk[q].does \in OnAFile, Exists(clerk[q].app)
    PROVE  /\ clerk[q].app \in App /\ file[clerk[q].app] \in Files
           /\ file[clerk[q].app].status \in Editable
           /\ clerk[q].does \in {"save", "fill"} => file[clerk[q].app].kind # "additional"
<1> USE DEF AdmInv, AdmTyped
<1>1. clerk[q].app \in App
    BY RequestForms
<1> QED BY <1>1, FileForms DEF RequestsStand, RequestStands, Exists

LEMMA TieStep ==
    ASSUME AdmInv, NEW q \in Clerk, TieOnline(q)
    PROVE  AdmInv'
<1>1. PICK a : a = clerk[q].app
    OBVIOUS
<1>2. a \in App /\ file[a] \in Files /\ file[a].status \in Editable
    BY <1>1, StillOpen DEF TieOnline, Doing, OnAFile
<1>3. PICK form : form = [file[a] EXCEPT !.online = TRUE]
    OBVIOUS
<1>4. /\ form \in Files /\ form.kind = file[a].kind /\ form.root = file[a].root /\ form.opens = file[a].opens
      /\ form.source = file[a].source /\ form.rejoins = file[a].rejoins /\ form.holder = file[a].holder
      /\ form.nic = file[a].nic /\ form.status = file[a].status
    BY <1>2, <1>3 DEF Files
<1>5. file' = [file EXCEPT ![a] = form] /\ At(q, Away) /\ UNCHANGED <<member, customer, held>>
    BY <1>1, <1>3 DEF TieOnline
<1>6. form.status \notin {"submitted", "approved"}
    BY <1>2, <1>4 DEF Editable
<1>7. ClerksTyped' /\ ClerksFollow /\ \A p \in Clerk : clerk'[p].does = "submit" => clerk'[p] = clerk[p]
    BY <1>5, RequestEnds
<1> QED BY <1>2, <1>4, <1>5, <1>6, <1>7, OfEdit

\* A value saved, or filled in: nobody else has it open, so nobody is
\* submitting it.
LEMMA NicStep ==
    ASSUME AdmInv, OneTab, NEW q \in Clerk, CommitSave(q) \/ FillPublic(q)
    PROVE  AdmInv'
<1> USE DEF AdmInv, AdmTyped
<1>1. PICK a : a = clerk[q].app
    OBVIOUS
<1>2. clerk[q].does \in {"save", "fill"} /\ Exists(clerk[q].app)
    BY DEF CommitSave, FillPublic, Doing
<1>3. a \in App /\ file[a] \in Files /\ file[a].status \in Editable /\ file[a].kind # "additional"
    BY <1>1, <1>2, StillOpen DEF OnAFile
<1>4. PICK n \in Nic : n = clerk[q].nic
    BY <1>2, RequestForms
<1>5. PICK form : form = [file[a] EXCEPT !.nic = n]
    OBVIOUS
<1>6. /\ form \in Files /\ form.kind = file[a].kind /\ form.root = file[a].root /\ form.opens = file[a].opens
      /\ form.source = file[a].source /\ form.rejoins = file[a].rejoins /\ form.holder = file[a].holder
      /\ form.status = file[a].status
    BY <1>3, <1>5 DEF Files
<1>7. file' = [file EXCEPT ![a] = form] /\ UNCHANGED <<member, customer, held>>
    BY <1>1, <1>4, <1>5 DEF CommitSave, FillPublic
<1>8. file'[a] = form
    BY <1>3, <1>7 DEF FilesTyped
<1>9. PICK request \in Errands : At(q, request) /\ request \in {Away} \cup [does : {"check"}, app : {a}]
    <2>1. Away \in Errands /\ [does |-> "check", app |-> a] \in Errands
        BY <1>3 DEF Errands
    <2> QED BY <2>1, <1>1 DEF CommitSave, FillPublic
<1>10. request.does \in {"nothing", "check"} /\ (request.does = "check" => request.app = a)
    BY <1>9 DEF Away
<1>11. clerk'[q] = request /\ \A p \in Clerk : p # q => clerk'[p] = clerk[p]
    BY <1>9 DEF At, ClerksTyped
<1>12. RequestStands(q)'
    BY <1>3, <1>6, <1>8, <1>10, <1>11 DEF RequestStands, OnAFile
<1>13. ClerksTyped' /\ ClerksFollow
    BY <1>9, <1>12, RequestMoves
<1>14. \A p \in Clerk : clerk'[p].does = "submit" => clerk'[p] = clerk[p] /\ p # q
    BY <1>10, <1>11
<1>15. ~Cleared(a)'
    <2>1. file'[a].status \notin {"submitted", "approved"}
        BY <1>3, <1>6, <1>8 DEF Editable
    <2>2. \A p \in Clerk : clerk'[p].does = "submit" => clerk'[p].app # a
        BY <1>1, <1>2, <1>14, OneTabApart DEF OnAFile
    <2> QED BY <2>1, <2>2 DEF Cleared
<1>16. file[a].status \in Editable /\ file[a].status # "approved"
    BY <1>3 DEF Editable
<1> QED BY <1>3, <1>6, <1>7, <1>13, <1>14, <1>15, <1>16, OfEdit

LEMMA CommitSubmitStep ==
    ASSUME AdmInv, OneTab, NEW q \in Clerk, CommitSubmit(q)
    PROVE  AdmInv'
<1> USE DEF AdmInv, AdmTyped
<1>1. PICK a : a = clerk[q].app
    OBVIOUS
<1>2. clerk[q].does = "submit" /\ Exists(a)
    BY <1>1 DEF CommitSubmit, Doing
<1>3. a \in App /\ file[a] \in Files /\ file[a].status \in Editable
    BY <1>1, <1>2, StillOpen DEF OnAFile
<1>4. PICK to \in {"submitted", "received"} : to = clerk[q].to
    BY <1>2, RequestForms
<1>5. PICK form : form = [file[a] EXCEPT !.status = to]
    OBVIOUS
<1>6. /\ form \in Files /\ form.kind = file[a].kind /\ form.root = file[a].root /\ form.opens = file[a].opens
      /\ form.source = file[a].source /\ form.rejoins = file[a].rejoins /\ form.holder = file[a].holder
      /\ form.nic = file[a].nic
    BY <1>3, <1>5 DEF Files, Standing
<1>7. file' = [file EXCEPT ![a] = form] /\ At(q, Away) /\ UNCHANGED <<member, customer, held>>
    BY <1>1, <1>4, <1>5 DEF CommitSubmit
<1>8. /\ ClerksTyped' /\ ClerksFollow /\ \A p \in Clerk : clerk'[p].does = "submit" => clerk'[p] = clerk[p]
      /\ \A p \in Clerk : p # q => clerk'[p] = clerk[p]
      /\ clerk'[q] = Away
    BY <1>7, RequestEnds
<1>9. \A p \in Clerk : clerk'[p].does \in OnAFile => clerk'[p].app # a
    <2>1. Away.does \notin OnAFile
        BY DEF Away, OnAFile
    <2>2. clerk[q].does \in OnAFile
        BY <1>2 DEF OnAFile
    <2> QED BY <1>1, <1>8, <2>1, <2>2, OneTabApart
<1>10. Cleared(a)
    BY <1>1, <1>2 DEF Cleared
<1>11. file[a].status # "approved"
    BY <1>3 DEF Editable
<1> QED BY <1>3, <1>6, <1>7, <1>8, <1>9, <1>10, <1>11, OfEdit

LEMMA CheckPublicStep ==
    ASSUME AdmInv, NEW q \in Clerk, CheckPublic(q)
    PROVE  AdmInv'
<1> USE DEF AdmInv, AdmTyped
<1>1. PICK a : a = clerk[q].app
    OBVIOUS
<1>2. a \in App /\ file[a] \in Files /\ file[a].status \in Editable
    BY <1>1, StillOpen DEF CheckPublic, Doing, OnAFile
<1>3. UNCHANGED <<member, customer, held>>
    BY DEF CheckPublic
<1>4. CASE At(q, [does |-> "receive", app |-> a]) /\ UNCHANGED file
    <2>1. PICK request : request = [does |-> "receive", app |-> a]
        OBVIOUS
    <2>2. request \in Errands /\ request.does = "receive" /\ request.app = a /\ At(q, request)
        BY <1>2, <1>4, <2>1 DEF Errands
    <2>3. clerk'[q] = request
        BY <2>2 DEF At, ClerksTyped
    <2>4. RequestStands(q)'
        BY <1>2, <1>4, <2>2, <2>3 DEF RequestStands, OnAFile
    <2> QED BY <1>3, <1>4, <2>2, <2>4, RequestAlone
<1>5. CASE At(q, Away) /\ file' = IF file[a].status = "draft" THEN [file EXCEPT ![a] = Deleted] ELSE file
    <2>1. ClerksTyped' /\ ClerksFollow /\ \A p \in Clerk : clerk'[p].does = "submit" => clerk'[p] = clerk[p]
        BY <1>5, RequestEnds
    <2>2. CASE file[a].status = "draft"
        BY <1>2, <1>3, <1>5, <2>1, <2>2, OfDeletion
    <2>3. CASE file[a].status # "draft"
        BY <1>3, <1>5, <2>1, <2>3, OfRequests
    <2> QED BY <2>2, <2>3
<1> QED BY <1>1, <1>4, <1>5 DEF CheckPublic

LEMMA ReceiveStep ==
    ASSUME AdmInv, NEW q \in Clerk, ReceivePublic(q)
    PROVE  AdmInv'
<1> USE DEF AdmInv, AdmTyped
<1>1. PICK a : a = clerk[q].app
    OBVIOUS
<1>2. a \in App /\ file[a] \in Files /\ file[a].status \in Editable
    BY <1>1, StillOpen DEF ReceivePublic, Doing, OnAFile
<1>3. PICK form : form = [file[a] EXCEPT !.status = "received", !.online = TRUE]
    OBVIOUS
<1>4. /\ form \in Files /\ form.kind = file[a].kind /\ form.root = file[a].root /\ form.opens = file[a].opens
      /\ form.source = file[a].source /\ form.rejoins = file[a].rejoins /\ form.holder = file[a].holder
      /\ form.nic = file[a].nic /\ form.status = "received"
    BY <1>2, <1>3 DEF Files, Standing
<1>5. file' = [file EXCEPT ![a] = form] /\ At(q, Away) /\ UNCHANGED <<member, customer, held>>
    BY <1>1, <1>3 DEF ReceivePublic
<1>6. ClerksTyped' /\ ClerksFollow /\ \A p \in Clerk : clerk'[p].does = "submit" => clerk'[p] = clerk[p]
    BY <1>5, RequestEnds
<1>7. form.status \in Editable /\ file[a].status # "approved" /\ form.status \notin {"submitted", "approved"}
    BY <1>2, <1>4 DEF Editable
<1> QED BY <1>2, <1>4, <1>5, <1>6, <1>7, OfEdit

\* What officers do to a row without making anybody.
LEMMA OfficeStep ==
    ASSUME AdmInv, NEW a \in App, Return(a) \/ Reject(a) \/ Reopen(a)
    PROVE  AdmInv'
<1> USE DEF AdmInv, AdmTyped
<1>1. PICK to \in {"returned", "rejected"} :
          /\ file' = [file EXCEPT ![a].status = to]
          /\ file[a].status \in {"submitted", "rejected"}
          /\ UNCHANGED <<member, customer, held, clerk>>
    BY DEF Return, Reject, Reopen
<1>2. file[a] \in Files
    BY <1>1, FileForms DEF Standing
<1>3. PICK form : form = [file[a] EXCEPT !.status = to]
    OBVIOUS
<1>4. /\ form \in Files /\ form.kind = file[a].kind /\ form.root = file[a].root /\ form.opens = file[a].opens
      /\ form.source = file[a].source /\ form.rejoins = file[a].rejoins /\ form.holder = file[a].holder
      /\ form.nic = file[a].nic /\ form.status = to
    BY <1>2, <1>3 DEF Files, Standing
<1>5. file' = [file EXCEPT ![a] = form]
    BY <1>1, <1>3
<1>6. ClerksTyped' /\ ClerksFollow /\ \A p \in Clerk : clerk'[p].does = "submit" => clerk'[p] = clerk[p]
    BY <1>1, RequestsUntouched
<1>7. file[a].status # "approved" /\ form.status \notin {"submitted", "approved"} /\ file[a].status \notin Editable
    BY <1>1, <1>4 DEF Editable
<1> QED BY <1>1, <1>2, <1>4, <1>5, <1>6, <1>7, OfEdit

LEMMA DeleteDraftStep ==
    ASSUME AdmInv, NEW a \in App, DeleteDraft(a)
    PROVE  AdmInv'
<1>1. UNCHANGED <<member, customer, held, clerk>> /\ file[a].status = "draft" /\ file' = [file EXCEPT ![a] = Deleted]
    BY DEF DeleteDraft
<1> QED BY <1>1, RequestsUntouched, OfDeletion

\* What an opening does: an account keeps its owner, or is the owner's first
\* of its type.
LEMMA OpenedOwners ==
    ASSUME AdmInv, NEW a \in App, NEW owner \in Members \cup Customers,
           NEW types \in SUBSET (Default \cup Further), ~AlreadyOpen(owner, types)
    PROVE  /\ Opened(a, owner, types) \in [Slots -> [open : BOOLEAN, owner : Owners]]
           /\ \A x \in Slots :
                  \/ Opened(a, owner, types)[x].owner = held[x].owner
                  \/ /\ Opened(a, owner, types)[x].owner = owner /\ x[1] = a /\ x[2] \in types
                     /\ \A y \in Slots : y[2] = x[2] => held[y].owner # owner
<1> USE DEF AdmInv, AdmTyped
<1>1. DOMAIN held = Slots
    BY DEF HeldTyped
<1>2. owner \in Owners
    BY DEF Owners
<1>3. ASSUME NEW x \in Slots
      PROVE  /\ Opened(a, owner, types)[x] \in [open : BOOLEAN, owner : Owners]
             /\ \/ Opened(a, owner, types)[x].owner = held[x].owner
                \/ /\ Opened(a, owner, types)[x].owner = owner /\ x[1] = a /\ x[2] \in types
                   /\ \A y \in Slots : y[2] = x[2] => held[y].owner # owner
    <2>1. held[x] \in [open : BOOLEAN, owner : Owners]
        BY DEF HeldTyped
    <2>2. PICK back \in BOOLEAN : back = (\E t \in types : ClosedOf(owner, t) # {} /\ x = CHOOSE y \in ClosedOf(owner, t) : TRUE)
        OBVIOUS
    <2>3. Opened(a, owner, types)[x] =
              IF back THEN [held[x] EXCEPT !.open = TRUE]
              ELSE IF x[1] = a /\ x[2] \in types /\ ClosedOf(owner, x[2]) = {} THEN [open |-> TRUE, owner |-> owner]
              ELSE held[x]
        BY <1>1, <2>2 DEF Opened
    <2>4. CASE back
        BY <2>1, <2>3, <2>4
    <2>5. CASE ~back /\ x[1] = a /\ x[2] \in types /\ ClosedOf(owner, x[2]) = {}
        <3>1. Opened(a, owner, types)[x] = [open |-> TRUE, owner |-> owner]
            BY <2>3, <2>5
        <3>2. \A y \in Slots : y[2] = x[2] => held[y].owner # owner
            BY <1>1, <2>5 DEF ClosedOf, AccountsOf, AlreadyOpen, OpenOf
        <3> QED BY <3>1, <3>2, <2>5, <1>2
    <2>6. CASE ~back /\ ~(x[1] = a /\ x[2] \in types /\ ClosedOf(owner, x[2]) = {})
        BY <2>1, <2>3, <2>6
    <2> QED BY <2>4, <2>5, <2>6
<1>4. Opened(a, owner, types) = [x \in Slots |-> Opened(a, owner, types)[x]]
    BY <1>1 DEF Opened
<1> QED BY <1>3, <1>4

LEMMA SlotsApart ==
    ASSUME NEW x \in Slots, NEW y \in Slots, x[1] = y[1], x[2] = y[2]
    PROVE  x = y
    BY DEF Slots

LEMMA OpenedApart ==
    ASSUME AdmInv, NEW a \in App, NEW owner \in Members \cup Customers,
           NEW types \in SUBSET (Default \cup Further), ~AlreadyOpen(owner, types), held' = Opened(a, owner, types),
           MembersFollow, CustomersFollow,
           \A m \in App : owner = AsMember(m) => member'[m] # NotAMember,
           \A c \in App : owner = AsCustomer(c) => customer'[c] # NotACustomer /\ types \subseteq Further
    PROVE  HeldTyped' /\ OwnersThere' /\ OneAccountAType'
<1>1. HeldTyped'
    BY OpenedOwners DEF HeldTyped
<1>2. \A x \in Slots :
          \/ held'[x].owner = held[x].owner
          \/ /\ held'[x].owner = owner /\ x[1] = a /\ x[2] \in types
             /\ \A y \in Slots : y[2] = x[2] => held[y].owner # owner
    BY OpenedOwners
<1>3. DOMAIN held = Slots /\ DOMAIN held' = Slots
    BY <1>1 DEF HeldTyped, AdmInv, AdmTyped
<1>4. OwnersThere'
    BY <1>2 DEF OwnersThere, AdmInv, MembersFollow, CustomersFollow, CameIn
<1>5. OneAccountAType'
    <2> SUFFICES ASSUME NEW x \in Slots, NEW y \in Slots, x # y, x[2] = y[2], held'[x].owner # None
                 PROVE  held'[x].owner # held'[y].owner
        BY <1>3 DEF OneAccountAType
    <2>1. CASE held'[x].owner = held[x].owner /\ held'[y].owner = held[y].owner
        BY <2>1, <1>3 DEF AdmInv, OneAccountAType
    <2>2. CASE held'[x].owner = owner /\ x[1] = a /\ \A z \in Slots : z[2] = x[2] => held[z].owner # owner
        <3>1. y[1] # a
            BY <2>2, SlotsApart
        <3> QED BY <2>2, <3>1, <1>2
    <2>3. CASE held'[y].owner = owner /\ y[1] = a /\ \A z \in Slots : z[2] = y[2] => held[z].owner # owner
        <3>1. x[1] # a
            BY <2>3, SlotsApart
        <3> QED BY <2>3, <3>1, <1>2
    <2> QED BY <2>1, <2>2, <2>3, <1>2
<1> QED BY <1>1, <1>4, <1>5

\* An approval, whatever it makes.
LEMMA OfApproval ==
    ASSUME AdmInv, NEW a \in App, NEW kind, Approves(a, kind), ClerksTyped', ClerksFollow,
           \A p \in Clerk : clerk'[p].does = "submit" => clerk'[p] = clerk[p],
           MembersFollow, CustomersFollow, MembersTyped', CustomersTyped',
           HeldTyped' /\ OwnersThere' /\ OneAccountAType'
    PROVE  AdmInv'
<1> USE DEF AdmInv, AdmTyped
<1>1. file[a].status = "submitted" /\ file[a] \in Files
    BY FileForms DEF Approves, Standing
<1>2. PICK form : form = [file[a] EXCEPT !.status = "approved"]
    OBVIOUS
<1>3. /\ form \in Files /\ form.kind = file[a].kind /\ form.root = file[a].root /\ form.opens = file[a].opens
      /\ form.source = file[a].source /\ form.rejoins = file[a].rejoins /\ form.holder = file[a].holder
      /\ form.nic = file[a].nic /\ form.status = "approved"
    BY <1>1, <1>2 DEF Files, Standing
<1>4. file' = [file EXCEPT ![a] = form]
    BY <1>2 DEF Approves
<1>5. file' \in [App -> Files \cup {NoFile, Deleted}] /\ file'[a] = form /\ \A x \in App : x # a => file'[x] = file[x]
    BY <1>3, <1>4 DEF FilesTyped
<1>6. FilesFollow
    <2>1. Edited(a)
        BY <1>1, <1>3, <1>5 DEF Edited, SameFile
    <2> QED BY <2>1, <1>5 DEF FilesFollow, Untouched
<1>7. EditableFollow
    BY <1>1, <1>5 DEF EditableFollow, Editable
<1>8. ClearedFollow
    <2>1. \A x \in App : x # a /\ Cleared(x)' => Cleared(x)
        BY <1>5 DEF Cleared, Exists
    <2>2. Cleared(a)
        BY <1>1 DEF Cleared
    <2> QED BY <1>3, <1>5, <2>1, <2>2 DEF ClearedFollow
<1>9. ClearedApart'
    BY <1>8, ClearedKept
<1>10. FilesTyped'
    BY <1>5 DEF FilesTyped
<1>11. MembersApproved' /\ CustomersApproved' /\ OneFolder' /\ NobodyNew'
    BY <1>6, <1>10, FolderKept
<1>12. RequestsStand'
    BY <1>6, <1>7, RequestsKept
<1> QED BY <1>9, <1>10, <1>11, <1>12

\* Whose application is before the Board has made nobody yet, and nothing is
\* theirs.
LEMMA NobodyYet ==
    ASSUME AdmInv, NEW a \in App, file[a].status = "submitted"
    PROVE  /\ member[a] = NotAMember /\ customer[a] = NotACustomer
           /\ \A x \in Slots : held[x].owner # AsMember(a) /\ held[x].owner # AsCustomer(a)
           /\ \A types : ~AlreadyOpen(AsMember(a), types) /\ ~AlreadyOpen(AsCustomer(a), types)
           /\ file[a] \in Files
<1> USE DEF AdmInv, AdmTyped
<1>1. member[a] = NotAMember /\ customer[a] = NotACustomer
    BY DEF MembersApproved, CustomersApproved
<1>2. \A x \in Slots : held[x].owner # AsMember(a) /\ held[x].owner # AsCustomer(a)
    BY <1>1 DEF OwnersThere
<1>3. \A types : ~AlreadyOpen(AsMember(a), types) /\ ~AlreadyOpen(AsCustomer(a), types)
    BY <1>2 DEF AlreadyOpen, OpenOf, AccountsOf, HeldTyped
<1>4. file[a] \in Files
    BY FileForms DEF Standing
<1> QED BY <1>1, <1>2, <1>3, <1>4

LEMMA CreateMemberStep ==
    ASSUME AdmInv, NEW a \in App, CreateMember(a)
    PROVE  AdmInv'
<1> USE DEF AdmInv, AdmTyped
<1>1. /\ file[a].status = "submitted" /\ Approves(a, "membership")
      /\ member' = [member EXCEPT ![a] = [status |-> "active", filed |-> a]]
      /\ held' = Opened(a, AsMember(a), Default) /\ UNCHANGED <<customer, clerk>>
    BY DEF CreateMember, Approves
<1>2. member[a] = NotAMember /\ ~AlreadyOpen(AsMember(a), Default) /\ file[a] \in Files
    BY <1>1, NobodyYet
<1>3. file'[a].status = "approved"
    BY <1>1, <1>2 DEF Approves, FilesTyped, Files
<1>4. /\ \A m \in App : m # a => member'[m] = member[m]
      /\ member'[a] # NotAMember /\ member'[a].filed = a
    BY <1>1 DEF MembersTyped, NotAMember
<1>5. MembersFollow /\ CustomersFollow
    BY <1>1, <1>2, <1>3, <1>4 DEF MembersFollow, CameIn, CustomersFollow
<1>6. MembersTyped' /\ CustomersTyped'
    BY <1>1 DEF MembersTyped, CustomersTyped
<1>7. HeldTyped' /\ OwnersThere' /\ OneAccountAType'
    <2>1. \A m \in App : AsMember(a) = AsMember(m) => member'[m] # NotAMember
        BY <1>4, Named
    <2>2. \A c \in App : AsMember(a) # AsCustomer(c)
        BY Named
    <2>3. PICK owner \in Members \cup Customers : owner = AsMember(a)
        BY Named
    <2>4. PICK types \in SUBSET (Default \cup Further) : types = Default
        OBVIOUS
    <2> QED BY <1>1, <1>2, <1>5, <2>1, <2>2, <2>3, <2>4, OpenedApart
<1>8. ClerksTyped' /\ ClerksFollow /\ \A p \in Clerk : clerk'[p].does = "submit" => clerk'[p] = clerk[p]
    BY <1>1, RequestsUntouched
<1> QED BY <1>1, <1>5, <1>6, <1>7, <1>8, OfApproval

LEMMA RejoinStep ==
    ASSUME AdmInv, NEW a \in App, RejoinMember(a)
    PROVE  AdmInv'
<1> USE DEF AdmInv, AdmTyped
<1>1. file[a].status = "submitted" /\ file[a].rejoins # None /\ Approves(a, "membership")
    BY DEF RejoinMember, Approves
<1>2. file[a] \in Files /\ Exists(a)
    BY <1>1, FileForms DEF Standing
<1>3. PICK m \in App : file[a].rejoins = AsMember(m)
    BY <1>1, <1>2 DEF Files, Members
<1>4. file[a].rejoins.of = m
    BY <1>3 DEF AsMember
<1>5. /\ member[m].status = "resigned" /\ ~AlreadyOpen(AsMember(m), Default)
      /\ member' = [member EXCEPT ![m] = [status |-> "active", filed |-> a]]
      /\ held' = Opened(a, AsMember(m), Default) /\ UNCHANGED <<customer, clerk>>
    BY <1>4 DEF RejoinMember
<1>6. member[m] # NotAMember
    BY <1>5, OnFile
<1>7. file[m].status = "approved" /\ file[a].root = file[member[m].filed].root
    BY <1>2, <1>3, <1>6 DEF MembersApproved, OneFolder, FolderIsMembers, NamesMember
<1>8. file'[a].status = "approved" /\ file'[m].status = "approved"
    BY <1>1, <1>2, <1>7 DEF Approves, FilesTyped, Files
<1>9. /\ \A o \in App : o # m => member'[o] = member[o]
      /\ member'[m] # NotAMember /\ member'[m].filed = a
    BY <1>5 DEF MembersTyped, NotAMember
<1>10. MembersFollow /\ CustomersFollow
    BY <1>2, <1>5, <1>7, <1>8, <1>9 DEF MembersFollow, CameIn, CustomersFollow
<1>11. MembersTyped' /\ CustomersTyped'
    BY <1>5 DEF MembersTyped, CustomersTyped
<1>12. HeldTyped' /\ OwnersThere' /\ OneAccountAType'
    <2>1. \A o \in App : AsMember(m) = AsMember(o) => member'[o] # NotAMember
        BY <1>9, Named
    <2>2. \A c \in App : AsMember(m) # AsCustomer(c)
        BY Named
    <2>3. PICK owner \in Members \cup Customers : owner = AsMember(m)
        BY Named
    <2>4. PICK types \in SUBSET (Default \cup Further) : types = Default
        OBVIOUS
    <2> QED BY <1>5, <1>10, <2>1, <2>2, <2>3, <2>4, OpenedApart
<1>13. ClerksTyped' /\ ClerksFollow /\ \A p \in Clerk : clerk'[p].does = "submit" => clerk'[p] = clerk[p]
    BY <1>5, RequestsUntouched
<1> QED BY <1>1, <1>10, <1>11, <1>12, <1>13, OfApproval

LEMMA OpenForMemberStep ==
    ASSUME AdmInv, NEW a \in App, OpenForMember(a)
    PROVE  AdmInv'
<1> USE DEF AdmInv, AdmTyped
<1>1. file[a].status = "submitted" /\ Approves(a, "additional")
    BY DEF OpenForMember, Approves
<1>2. file[a] \in Files
    BY <1>1, FileForms DEF Standing
<1>3. PICK m : m = file[a].holder.of /\ file[a].holder = AsMember(m)
    BY DEF OpenForMember
<1>4. m \in App
    <2>1. file[a].holder \in {None} \cup Members \cup Customers
        BY <1>2 DEF Files, Owners
    <2>2. file[a].holder.kind = "member" /\ file[a].holder.of = m
        BY <1>3 DEF AsMember
    <2>3. PICK o \in App : file[a].holder = AsMember(o) \/ file[a].holder = AsCustomer(o)
        BY <2>1, <2>2 DEF None, Members, Customers
    <2> QED BY <2>2, <2>3 DEF AsMember, AsCustomer
<1>5. /\ CanOpenAccount(m) /\ ~AlreadyOpen(AsMember(m), file[a].opens)
      /\ held' = Opened(a, AsMember(m), file[a].opens) /\ UNCHANGED <<member, customer, clerk>>
    BY <1>3 DEF OpenForMember
<1>6. member[m] # NotAMember
    BY <1>4, <1>5, OnFile DEF CanOpenAccount
<1>7. MembersFollow /\ CustomersFollow
    BY <1>5 DEF MembersFollow, CustomersFollow
<1>8. MembersTyped' /\ CustomersTyped'
    BY <1>5 DEF MembersTyped, CustomersTyped
<1>9. HeldTyped' /\ OwnersThere' /\ OneAccountAType'
    <2>1. \A o \in App : AsMember(m) = AsMember(o) => member'[o] # NotAMember
        BY <1>4, <1>5, <1>6, Named
    <2>2. \A c \in App : AsMember(m) # AsCustomer(c)
        BY <1>4, Named
    <2>3. PICK owner \in Members \cup Customers : owner = AsMember(m)
        BY <1>4, Named
    <2>4. PICK types \in SUBSET (Default \cup Further) : types = file[a].opens
        BY <1>2 DEF Files
    <2> QED BY <1>5, <1>7, <2>1, <2>2, <2>3, <2>4, OpenedApart
<1>10. ClerksTyped' /\ ClerksFollow /\ \A p \in Clerk : clerk'[p].does = "submit" => clerk'[p] = clerk[p]
    BY <1>5, RequestsUntouched
<1> QED BY <1>1, <1>7, <1>8, <1>9, <1>10, OfApproval

LEMMA OpenUnderCustomerStep ==
    ASSUME AdmInv, NEW a \in App, OpenUnderCustomer(a)
    PROVE  AdmInv'
<1> USE DEF AdmInv, AdmTyped
<1>1. file[a].status = "submitted" /\ Approves(a, "additional")
    BY DEF OpenUnderCustomer, Approves
<1>2. file[a] \in Files
    BY <1>1, FileForms DEF Standing
<1>3. PICK c : c = file[a].holder.of /\ file[a].holder = AsCustomer(c)
    BY DEF OpenUnderCustomer
<1>4. c \in App
    <2>1. file[a].holder \in {None} \cup Members \cup Customers
        BY <1>2 DEF Files, Owners
    <2>2. file[a].holder.kind = "customer" /\ file[a].holder.of = c
        BY <1>3 DEF AsCustomer
    <2>3. PICK o \in App : file[a].holder = AsMember(o) \/ file[a].holder = AsCustomer(o)
        BY <2>1, <2>2 DEF None, Members, Customers
    <2> QED BY <2>2, <2>3 DEF AsMember, AsCustomer
<1>5. /\ MayHaveMore(c) /\ ~AlreadyOpen(AsCustomer(c), file[a].opens)
      /\ held' = Opened(a, AsCustomer(c), file[a].opens)
      /\ customer' = [customer EXCEPT ![c].status = "active"] /\ UNCHANGED <<member, clerk>>
    BY <1>3 DEF OpenUnderCustomer
<1>6. customer[c] # NotACustomer
    BY <1>4, <1>5, OnFile DEF MayHaveMore
<1>7. customer'[c] \in [status : {"active", "closed", "converted"}] /\ \A o \in App : o # c => customer'[o] = customer[o]
    BY <1>4, <1>5, <1>6 DEF CustomersTyped
<1>8. customer'[c] # NotACustomer
    BY <1>7 DEF NotACustomer
<1>9. MembersFollow /\ CustomersFollow
    BY <1>5, <1>6, <1>7, <1>8 DEF MembersFollow, CustomersFollow
<1>10. MembersTyped' /\ CustomersTyped'
    BY <1>4, <1>5, <1>7 DEF MembersTyped, CustomersTyped
<1>11. HeldTyped' /\ OwnersThere' /\ OneAccountAType'
    <2>1. \A m \in App : AsCustomer(c) # AsMember(m)
        BY <1>4, Named
    <2>2. \A o \in App : AsCustomer(c) = AsCustomer(o) => customer'[o] # NotACustomer /\ file[a].opens \subseteq Further
        BY <1>2, <1>4, <1>8, Named DEF Files
    <2>3. PICK owner \in Members \cup Customers : owner = AsCustomer(c)
        BY <1>4, Named
    <2>4. PICK types \in SUBSET (Default \cup Further) : types = file[a].opens
        BY <1>2 DEF Files
    <2> QED BY <1>5, <1>9, <2>1, <2>2, <2>3, <2>4, OpenedApart
<1>12. ClerksTyped' /\ ClerksFollow /\ \A p \in Clerk : clerk'[p].does = "submit" => clerk'[p] = clerk[p]
    BY <1>5, RequestsUntouched
<1> QED BY <1>1, <1>9, <1>10, <1>11, <1>12, OfApproval

LEMMA OpenForNewCustomerStep ==
    ASSUME AdmInv, NEW a \in App, OpenForNewCustomer(a)
    PROVE  AdmInv'
<1> USE DEF AdmInv, AdmTyped
<1>1. /\ file[a].status = "submitted" /\ Approves(a, "customer")
      /\ customer' = [customer EXCEPT ![a] = [status |-> "active"]]
      /\ held' = Opened(a, AsCustomer(a), file[a].opens) /\ UNCHANGED <<member, clerk>>
    BY DEF OpenForNewCustomer, Approves
<1>2. file[a] \in Files /\ ~AlreadyOpen(AsCustomer(a), file[a].opens)
    BY <1>1, NobodyYet
<1>3. file'[a].status = "approved"
    BY <1>1, <1>2 DEF Approves, FilesTyped, Files
<1>4. customer'[a] # NotACustomer /\ \A o \in App : o # a => customer'[o] = customer[o]
    BY <1>1 DEF CustomersTyped, NotACustomer
<1>5. MembersFollow /\ CustomersFollow
    BY <1>1, <1>3, <1>4 DEF MembersFollow, CustomersFollow
<1>6. MembersTyped' /\ CustomersTyped'
    BY <1>1 DEF MembersTyped, CustomersTyped
<1>7. HeldTyped' /\ OwnersThere' /\ OneAccountAType'
    <2>1. \A m \in App : AsCustomer(a) # AsMember(m)
        BY Named
    <2>2. \A o \in App : AsCustomer(a) = AsCustomer(o) => customer'[o] # NotACustomer /\ file[a].opens \subseteq Further
        BY <1>2, <1>4, Named DEF Files
    <2>3. PICK owner \in Members \cup Customers : owner = AsCustomer(a)
        BY Named
    <2>4. PICK types \in SUBSET (Default \cup Further) : types = file[a].opens
        BY <1>2 DEF Files
    <2> QED BY <1>1, <1>2, <1>5, <2>1, <2>2, <2>3, <2>4, OpenedApart
<1>8. ClerksTyped' /\ ClerksFollow /\ \A p \in Clerk : clerk'[p].does = "submit" => clerk'[p] = clerk[p]
    BY <1>1, RequestsUntouched
<1> QED BY <1>1, <1>5, <1>6, <1>7, <1>8, OfApproval

\* A customer who joins takes over the accounts that were read, whoever's they
\* are by now: they are of different types, and none of one a membership opens.
LEMMA CommitCreateStep ==
    ASSUME AdmInv, NEW q \in Clerk, CommitCreateFromCustomer(q)
    PROVE  AdmInv'
<1> USE DEF AdmInv, AdmTyped
<1>1. PICK a \in App : a = clerk[q].app
    BY RequestForms DEF CommitCreateFromCustomer
<1>2. PICK moves \in SUBSET (App \X Further) : moves = clerk[q].moves
    BY RequestForms DEF CommitCreateFromCustomer
<1>3. PICK fresh : fresh = Opened(a, AsMember(a), Default)
    OBVIOUS
<1>4. /\ file[a].status = "submitted" /\ Approves(a, "membership")
      /\ member' = [member EXCEPT ![a] = [status |-> "active", filed |-> a]]
      /\ held' = [x \in DOMAIN held |-> IF x \in moves THEN [fresh[x] EXCEPT !.owner = AsMember(a)] ELSE fresh[x]]
      /\ customer' = [customer EXCEPT ![file[a].source.of].status = "converted"]
      /\ At(q, Away)
    BY <1>1, <1>2, <1>3 DEF CommitCreateFromCustomer, Approves
<1>5. /\ file[a].source # None
      /\ \A x, y \in moves : x[2] = y[2] => x = y
    <2>1. clerk[q].does = "admit" /\ RequestStands(q)
        BY DEF CommitCreateFromCustomer, RequestsStand
    <2>2. file[a] # Deleted
        BY <1>4 DEF Deleted
    <2> QED BY <1>1, <1>2, <2>1, <2>2 DEF RequestStands
<1>6. /\ member[a] = NotAMember /\ ~AlreadyOpen(AsMember(a), Default) /\ file[a] \in Files
      /\ \A x \in Slots : held[x].owner # AsMember(a)
    BY <1>4, NobodyYet
<1>7. PICK c \in App : file[a].source = AsCustomer(c)
    BY <1>5, <1>6 DEF Files, Customers
<1>8. file[a].source.of = c
    BY <1>7 DEF AsCustomer
<1>9. customer[c] # NotACustomer
    BY <1>6, <1>7, FileForms DEF OneFolder, FolderIsCustomers, NamesCustomer
<1>10. customer'[c] \in [status : {"active", "closed", "converted"}] /\ \A o \in App : o # c => customer'[o] = customer[o]
    BY <1>4, <1>8, <1>9 DEF CustomersTyped
<1>11. customer'[c] # NotACustomer
    BY <1>10 DEF NotACustomer
<1>12. file'[a].status = "approved"
    BY <1>4, <1>6 DEF Approves, FilesTyped, Files
<1>13. /\ \A m \in App : m # a => member'[m] = member[m]
       /\ member'[a] # NotAMember /\ member'[a].filed = a
    BY <1>4 DEF MembersTyped, NotAMember
<1>14. MembersFollow /\ CustomersFollow
    BY <1>6, <1>9, <1>10, <1>11, <1>12, <1>13 DEF MembersFollow, CameIn, CustomersFollow
<1>15. MembersTyped' /\ CustomersTyped'
    <2>1. customer' \in [App -> {NotACustomer} \cup [status : {"active", "closed", "converted"}]]
        BY <1>4, <1>8, <1>10 DEF CustomersTyped
    <2> QED BY <1>4, <2>1 DEF MembersTyped, CustomersTyped
<1>16. /\ fresh \in [Slots -> [open : BOOLEAN, owner : Owners]]
       /\ \A x \in Slots : \/ fresh[x].owner = held[x].owner
                           \/ fresh[x].owner = AsMember(a) /\ x[1] = a /\ x[2] \in Default
    <2>1. PICK owner \in Members \cup Customers : owner = AsMember(a)
        BY Named
    <2>2. PICK types \in SUBSET (Default \cup Further) : types = Default
        OBVIOUS
    <2> QED BY <1>3, <1>6, <2>1, <2>2, OpenedOwners
<1>17. DOMAIN held = Slots
    BY DEF HeldTyped
<1>18. \A x \in Slots :
           /\ x \in moves => held'[x] = [fresh[x] EXCEPT !.owner = AsMember(a)]
           /\ x \notin moves => held'[x] = fresh[x]
    BY <1>4, <1>17
<1>19. \A x \in Slots :
           \/ x \in moves /\ held'[x].owner = AsMember(a) /\ x[2] \in Further
           \/ x[1] = a /\ x[2] \in Default /\ held'[x].owner = AsMember(a)
           \/ held'[x].owner = held[x].owner
    <2> TAKE x \in Slots
    <2>1. fresh[x] \in [open : BOOLEAN, owner : Owners]
        BY <1>16
    <2>2. CASE x \in moves
        <3>1. held'[x].owner = AsMember(a)
            BY <2>1, <2>2, <1>18
        <3>2. x[2] \in Further
            BY <2>2
        <3> QED BY <2>2, <3>1, <3>2
    <2>3. CASE x \notin moves
        BY <2>3, <1>16, <1>18
    <2> QED BY <2>2, <2>3
<1>20. HeldTyped'
    <2>1. \A x \in Slots : held'[x] \in [open : BOOLEAN, owner : Owners]
        <3> TAKE x \in Slots
        <3>1. fresh[x] \in [open : BOOLEAN, owner : Owners] /\ AsMember(a) \in Owners
            BY <1>16, Named
        <3>2. [fresh[x] EXCEPT !.owner = AsMember(a)] \in [open : BOOLEAN, owner : Owners]
            BY <3>1
        <3> QED BY <3>1, <3>2, <1>18
    <2>2. held' = [x \in Slots |-> held'[x]]
        BY <1>4, <1>17
    <2> QED BY <2>1, <2>2 DEF HeldTyped
<1>21. OwnersThere'
    <2> SUFFICES ASSUME NEW x \in Slots
                 PROVE  /\ \A m \in App : held'[x].owner = AsMember(m) => member'[m] # NotAMember
                        /\ \A o \in App : held'[x].owner = AsCustomer(o) => customer'[o] # NotACustomer /\ x[2] \in Further
        BY DEF OwnersThere
    <2>1. CASE held'[x].owner = AsMember(a)
        BY <2>1, <1>13, Named
    <2>2. CASE held'[x].owner = held[x].owner
        BY <2>2, <1>14 DEF OwnersThere, MembersFollow, CustomersFollow, CameIn
    <2> QED BY <2>1, <2>2, <1>19
<1>22. OneAccountAType'
    <2> SUFFICES ASSUME NEW x \in Slots, NEW y \in Slots, x # y, x[2] = y[2], held'[x].owner # None
                 PROVE  held'[x].owner # held'[y].owner
        BY <1>20 DEF OneAccountAType, HeldTyped
    <2>1. CASE held'[x].owner = held[x].owner /\ held'[y].owner = held[y].owner
        BY <2>1, <1>17 DEF OneAccountAType
    <2>2. CASE x \in moves /\ x[2] \in Further /\ held'[x].owner = AsMember(a)
        BY <2>2, <1>5, <1>6, <1>19, TypesAssumption
    <2>3. CASE y \in moves /\ y[2] \in Further /\ held'[y].owner = AsMember(a)
        BY <2>3, <1>5, <1>6, <1>19, TypesAssumption
    <2>4. CASE x[1] = a /\ x[2] \in Default /\ held'[x].owner = AsMember(a)
        BY <2>4, <1>6, <1>19, SlotsApart, TypesAssumption
    <2>5. CASE y[1] = a /\ y[2] \in Default /\ held'[y].owner = AsMember(a)
        BY <2>5, <1>6, <1>19, SlotsApart, TypesAssumption
    <2> QED BY <2>1, <2>2, <2>3, <2>4, <2>5, <1>19
<1>23. ClerksTyped' /\ ClerksFollow /\ \A p \in Clerk : clerk'[p].does = "submit" => clerk'[p] = clerk[p]
    BY <1>4, RequestEnds
<1> QED BY <1>4, <1>14, <1>15, <1>20, <1>21, <1>22, <1>23, OfApproval

\* Accounts closed keep their owners, and whoever leaves stays on file.
LEMMA OfExit ==
    ASSUME AdmInv, UNCHANGED <<file, clerk>>, MembersFollow, CustomersFollow, MembersTyped', CustomersTyped',
           HeldTyped', \A x \in Slots : held'[x].owner = held[x].owner
    PROVE  AdmInv'
<1> USE DEF AdmInv, AdmTyped
<1>1. FilesTyped' /\ FilesFollow /\ EditableFollow
    BY DEF FilesTyped, FilesFollow, Untouched, EditableFollow
<1>2. ClerksTyped' /\ ClerksFollow
    BY DEF ClerksTyped, ClerksFollow
<1>3. MembersApproved' /\ CustomersApproved' /\ OneFolder' /\ NobodyNew'
    BY <1>1, FolderKept
<1>4. RequestsStand'
    BY <1>1, <1>2, RequestsKept
<1>5. ClearedApart'
    BY DEF ClearedApart, Cleared, Exists
<1>6. OwnersThere'
    BY DEF OwnersThere, MembersFollow, CustomersFollow, CameIn
<1>7. OneAccountAType'
    BY DEF OneAccountAType, HeldTyped
<1> QED BY <1>1, <1>2, <1>3, <1>4, <1>5, <1>6, <1>7

LEMMA ResignStep ==
    ASSUME AdmInv, NEW m \in App, Resign(m)
    PROVE  AdmInv'
<1> USE DEF AdmInv, AdmTyped
<1>1. /\ member[m].status = "active" /\ member' = [member EXCEPT ![m].status = "resigned"]
      /\ held' = [x \in DOMAIN held |->
                    IF x \in AccountsOf(AsMember(m)) /\ x[2] \in Default THEN [held[x] EXCEPT !.open = FALSE] ELSE held[x]]
      /\ UNCHANGED <<file, customer, clerk>>
    BY DEF Resign
<1>2. member[m] # NotAMember
    BY <1>1, OnFile
<1>3. /\ member'[m] \in [status : {"active", "resigned"}, filed : App] /\ member'[m].filed = member[m].filed
      /\ \A o \in App : o # m => member'[o] = member[o]
    BY <1>1, <1>2 DEF MembersTyped
<1>4. member'[m] # NotAMember
    BY <1>3 DEF NotAMember
<1>5. MembersFollow /\ CustomersFollow
    <2>1. CameIn(m)
        BY <1>1, <1>2, <1>3, <1>4, OnFile DEF CameIn, MembersApproved
    <2> QED BY <1>1, <1>3, <2>1 DEF MembersFollow, CustomersFollow
<1>6. MembersTyped' /\ CustomersTyped'
    BY <1>1, <1>3 DEF MembersTyped, CustomersTyped
<1>7. HeldTyped' /\ \A x \in Slots : held'[x].owner = held[x].owner
    BY <1>1 DEF HeldTyped
<1> QED BY <1>1, <1>5, <1>6, <1>7, OfExit

LEMMA CloseStep ==
    ASSUME AdmInv, NEW x \in Slots, CloseAccount(x)
    PROVE  AdmInv'
<1> USE DEF AdmInv, AdmTyped
<1>1. held' = [held EXCEPT ![x].open = FALSE] /\ UNCHANGED <<file, member, clerk>>
    BY DEF CloseAccount
<1>2. HeldTyped' /\ \A y \in Slots : held'[y].owner = held[y].owner
    BY <1>1 DEF HeldTyped
<1>3. CustomersFollow /\ CustomersTyped'
    <2>1. CASE customer' = customer
        BY <2>1 DEF CustomersFollow, CustomersTyped
    <2>2. CASE customer' # customer
        <3>1. PICK c : c = held[x].owner.of
            OBVIOUS
        <3>2. held[x].owner.kind = "customer" /\ customer[c].status = "active"
              /\ customer' = [customer EXCEPT ![c].status = "closed"]
            BY <2>2, <3>1 DEF CloseAccount
        <3>3. c \in App
            BY <3>1, <3>2 DEF HeldTyped, Owners, Members, Customers, None, AsMember, AsCustomer
        <3>4. customer[c] # NotACustomer
            BY <3>2, <3>3, OnFile
        <3>5. customer'[c] \in [status : {"active", "closed", "converted"}] /\ \A o \in App : o # c => customer'[o] = customer[o]
            BY <3>2, <3>3, <3>4 DEF CustomersTyped
        <3>6. customer'[c] # NotACustomer
            BY <3>5 DEF NotACustomer
        <3>7. customer' \in [App -> {NotACustomer} \cup [status : {"active", "closed", "converted"}]]
            BY <3>2, <3>3, <3>5 DEF CustomersTyped
        <3> QED BY <3>4, <3>5, <3>6, <3>7 DEF CustomersFollow, CustomersTyped
    <2> QED BY <2>1, <2>2
<1>4. MembersFollow /\ MembersTyped'
    BY <1>1 DEF MembersFollow, MembersTyped
<1> QED BY <1>1, <1>2, <1>3, <1>4, OfExit

LEMMA AdmissionStep ==
    ASSUME AdmInv, OneTab, AdmissionNext
    PROVE  AdmInv'
<1>1. CASE Captures
    <2>1. CASE \E a \in App, n \in Nic : StartApplicationWithValues(a, n)
        BY <2>1, StartStep
    <2>2. CASE \E a \in App : StartApplication(a) \/ DeleteDraft(a)
        BY <2>2, StartStep, DeleteDraftStep
    <2>3. CASE \E a, x \in App, t \in Further : StartAdditional(a, x, t) \/ StartCustomerAdditional(a, x, t)
        BY <2>3, FurtherStep
    <2>4. CASE \E a \in App, t \in Further : StartCustomerAccount(a, t)
        BY <2>4, FurtherStep
    <2>5. CASE \E q \in Clerk, a \in App, n \in Nic : BeginSave(q, a, n) \/ BeginSaveOnline(q, a, n)
        BY <2>5, BeginStep
    <2>6. CASE \E q \in Clerk, a \in App :
                   \/ BeginStartFromCustomer(q, a) \/ CommitStartFromCustomer(q, a)
                   \/ BeginStartRejoin(q, a) \/ CommitStartRejoin(q, a)
        BY <2>6, BeginStep, CommitStartFromCustomerStep, CommitStartRejoinStep
    <2>7. CASE \E q \in Clerk, a \in App :
                   \/ InsertOnline(q, a) \/ InsertPublic(q, a)
                   \/ BeginSubmit(q, a) \/ BeginSubmitOnline(q, a)
        BY <2>7, InsertStep, BeginSubmitStep
    <2>8. CASE \E q \in Clerk, n \in Nic : BeginPublic(q, n)
        BY <2>8, BeginApplyStep
    <2>9. CASE \E q \in Clerk : \/ BeginStartOnline(q) \/ TieOnline(q) \/ CommitSave(q) \/ CommitSubmit(q)
                                 \/ FillPublic(q) \/ CheckPublic(q) \/ ReceivePublic(q) \/ ClerkGone(q)
        BY <2>9, BeginApplyStep, TieStep, NicStep, CommitSubmitStep, CheckPublicStep, ReceiveStep, ClerkGoneStep
    <2> QED BY <1>1, <2>1, <2>2, <2>3, <2>4, <2>5, <2>6, <2>7, <2>8, <2>9 DEF Captures
<1>2. CASE Decides
    BY <1>2, OfficeStep, CreateMemberStep, RejoinStep, OpenForMemberStep, OpenUnderCustomerStep,
       OpenForNewCustomerStep, BeginCreateStep, CommitCreateStep DEF Decides
<1>3. CASE Goes
    BY <1>3, ResignStep, CloseStep DEF Goes, Slots
<1> QED BY <1>1, <1>2, <1>3 DEF AdmissionNext

LEMMA AdmissionStarts ==
    ASSUME AdmissionInit
    PROVE  AdmInv
<1> USE DEF AdmissionInit, AdmTyped
<1>1. FilesTyped /\ MembersTyped /\ CustomersTyped
    BY DEF FilesTyped, MembersTyped, CustomersTyped
<1>2. HeldTyped /\ \A x \in Slots : held[x].owner = None
    BY DEF HeldTyped, NotHeld, Owners, Slots
<1>3. ClerksTyped
    BY DEF ClerksTyped, Errands
<1>4. MembersApproved /\ CustomersApproved /\ OneFolder /\ NobodyNew
    BY DEF MembersApproved, CustomersApproved, OneFolder, NobodyNew, Exists
<1>5. RequestsStand
    BY DEF RequestsStand, RequestStands, Away, OnAFile
<1>6. ClearedApart
    BY DEF ClearedApart, Cleared, Exists, NoFile
<1>7. OwnersThere
    BY <1>2, Named DEF OwnersThere
<1>8. OneAccountAType
    BY <1>2 DEF OneAccountAType, HeldTyped
<1> QED BY <1>1, <1>2, <1>3, <1>4, <1>5, <1>6, <1>7, <1>8 DEF AdmInv

\* While every application is open in one tab, no two that are not of one
\* folder are before the Board, or approved, under one NIC.
THEOREM NICsApart == AdmissionSpec /\ []OneTab => []OneApplicationAnNIC
<1>1. AdmInv => OneApplicationAnNIC
    BY DEF AdmInv, ClearedApart, Cleared, InTheChain, OneApplicationAnNIC
<1>2. AdmInv /\ OneTab /\ [AdmissionNext]_admission => AdmInv'
    <2> SUFFICES ASSUME AdmInv, UNCHANGED admission PROVE AdmInv'
        BY AdmissionStep
    <2>1. UNCHANGED <<file, member, customer, held, clerk>>
        BY DEF admission
    <2> QED BY <2>1, OfRequests, RequestsUntouched
<1> QED BY <1>1, <1>2, AdmissionStarts, PTL DEF AdmissionSpec

\* Nobody ever has two accounts of one type, on the same condition.
THEOREM AccountsApart == AdmissionSpec /\ []OneTab => []OneAccountAType
<1>1. AdmInv => OneAccountAType
    BY DEF AdmInv
<1>2. AdmInv /\ OneTab /\ [AdmissionNext]_admission => AdmInv'
    <2> SUFFICES ASSUME AdmInv, UNCHANGED admission PROVE AdmInv'
        BY AdmissionStep
    <2>1. UNCHANGED <<file, member, customer, held, clerk>>
        BY DEF admission
    <2> QED BY <2>1, OfRequests, RequestsUntouched
<1> QED BY <1>1, <1>2, AdmissionStarts, PTL DEF AdmissionSpec
=============================================================================
