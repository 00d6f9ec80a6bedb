--------------------------- MODULE Configuration ---------------------------
(***************************************************************************)
(* The reference configuration (lib/config): what an administrator         *)
(* changes on screen or with a workbook, each change in one database       *)
(* transaction, and the copy every warm instance keeps of what it read.    *)
(*                                                                         *)
(* A handler that reads before it writes has two steps: another            *)
(* administrator's transaction may commit between its statements. One that *)
(* only writes has one. Wording, amounts and fields no rule here compares  *)
(* are settings: a setting holds the number of the write that made it.     *)
(***************************************************************************)
EXTENDS Integers, FiniteSets

CONSTANTS
    Instance,   \* warm instances
    Admin,      \* configuration requests under way
    Reader,     \* reads under way
    Load,       \* queries a cached read starts
    Type,       \* account types
    Step,       \* steps of one workflow
    Status,     \* its statuses
    Uses,       \* the statuses each step moves between
    Rule,       \* approval rules of one kind
    Checklist,
    Bank,
    Membership, \* membership types
    Method,     \* payment methods
    SystemMethod, \* those the system writes
    Catalogue,  \* of segregation: by kind of record, what is done to one earlier, and later
    Setting,
    MaxWrites   \* bound: writes committed

ASSUME UsesAssumption == Uses \in [Step -> SUBSET Status]
ASSUME MethodAssumption == SystemMethod \subseteq Method

\* The segregation rules the page offers: of two actions on one record.
Pair == UNION {{<<kind, earlier, later>> : earlier \in Catalogue[kind].earlier, later \in Catalogue[kind].later} :
                 kind \in DOMAIN Catalogue}

VARIABLES
    type, step, status, rank, routed, fee, checklist, bank, item, eligible, becomes, method,
    segregation, \* a rule: none, on or off
    setting,
    written,    \* writes committed
    answered,   \* the last one each instance answered
    entry,      \* the cache: the load each instance's entry holds
    load, reader, admin

rest == <<eligible, becomes, method, segregation, setting>>
tables == <<type, step, status, rank, routed, fee, checklist, item, bank, rest>>
caches == <<answered, entry, load, reader>>
configuration == <<tables, written, caches, admin>>

NoType == [there |-> FALSE]
NewType == [there |-> TRUE, active |-> TRUE, opens |-> FALSE, used |-> FALSE]
NoBank == [there |-> FALSE]
NoEntry == "none"
Unused == [at |-> "nowhere"]
Resting == [does |-> "nothing"]

ConfigurationInit ==
    /\ type = [t \in Type |-> [NewType EXCEPT !.opens = TRUE]]
    /\ step = [s \in Step |-> TRUE]
    /\ status = [x \in Status |-> TRUE]
    /\ rank = [r \in Rule |-> 0]
    /\ routed = {}
    /\ fee = 1
    /\ checklist = [c \in Checklist |-> "none"]
    /\ bank = [b \in Bank |-> NoBank]
    /\ item = {}
    /\ eligible = Membership
    /\ becomes = [h \in Membership |-> h]
    /\ method = SystemMethod
    /\ segregation = [p \in Pair |-> "none"]
    /\ setting = [k \in Setting |-> 0]
    /\ written = 0
    /\ answered = [i \in Instance |-> 0]
    /\ entry = [i \in Instance |-> NoEntry]
    /\ load = [l \in Load |-> Unused]
    /\ reader = [r \in Reader |-> Resting]
    /\ admin = [q \in Admin |-> Resting]

-----------------------------------------------------------------------------
(* One configuration request: withConfigurationActor.                      *)

\* A request whose checks pass has yet to write and commit.
Begins(q, request) ==
    /\ admin[q] = Resting
    /\ written < MaxWrites
    /\ admin' = [admin EXCEPT ![q] = request]
    /\ UNCHANGED <<tables, written, caches>>

\* It commits; clearing this instance's cache is what comes after.
Commits(q, i) ==
    /\ written < MaxWrites
    /\ written' = written + 1
    /\ admin' = [admin EXCEPT ![q] = [does |-> "clear", at |-> i, wrote |-> written + 1]]
    /\ UNCHANGED caches

\* A request that does all it does in one statement.
AtOnce(q, i) == admin[q] = Resting /\ Commits(q, i)
Does(q, what) == admin[q].does = what /\ Commits(q, admin[q].at)

\* Refused after its first statement, by a constraint or a row gone: rolled
\* back, nothing cleared.
Refused(q) ==
    /\ admin[q].does \notin {"nothing", "clear"}
    /\ admin' = [admin EXCEPT ![q] = Resting]
    /\ UNCHANGED <<tables, written, caches>>

\* Mutant of CacheAfterClear: a load still under way keeps its entry.
KeepsUnderWay(i) ==
    [entry EXCEPT ![i] = IF @ # NoEntry /\ load[@].state = "back" THEN NoEntry ELSE @]

\* clearReferenceCache: every entry, those whose load is still under way too.
CacheAfterClear(i) == [entry EXCEPT ![i] = NoEntry]

ClearCache(q) ==
    /\ admin[q].does = "clear"
    /\ LET i == admin[q].at IN
       /\ entry' = CacheAfterClear(i)
       /\ answered' = [answered EXCEPT ![i] = IF admin[q].wrote > @ THEN admin[q].wrote ELSE @]
    /\ admin' = [admin EXCEPT ![q] = Resting]
    /\ UNCHANGED <<tables, written, load, reader>>

-----------------------------------------------------------------------------
(* Cached reads                                                            *)

Referred(l) == (\E i \in Instance : entry[i] = l) \/ \E r \in Reader : reader[r] # Resting /\ reader[r].load = l

\* cached: an entry young enough is joined, its load done or not; otherwise
\* a load starts and the entry holds it at once.
Read(r, i) ==
    /\ reader[r] = Resting
    /\ \E l \in Load :
       /\ reader' = [reader EXCEPT ![r] = [does |-> "read", at |-> i, load |-> l, since |-> answered[i]]]
       /\ IF entry[i] # NoEntry
          THEN l = entry[i] /\ UNCHANGED <<load, entry>>
          ELSE /\ ~Referred(l)
               /\ load' = [load EXCEPT ![l] = [at |-> i, state |-> "asked"]]
               /\ entry' = [entry EXCEPT ![i] = l]
    /\ UNCHANGED <<tables, written, answered, admin>>

\* The query is answered by the database...
Query(l) ==
    /\ load[l] # Unused /\ load[l].state = "asked"
    /\ load' = [load EXCEPT ![l] = [at |-> @.at, state |-> "read", saw |-> written]]
    /\ UNCHANGED <<tables, written, answered, entry, reader, admin>>

\* ... and its answer reaches the instance.
Resolve(l) ==
    /\ load[l] # Unused /\ load[l].state = "read"
    /\ load' = [load EXCEPT ![l].state = "back"]
    /\ UNCHANGED <<tables, written, answered, entry, reader, admin>>

\* The query fails: its own entry goes, and its readers see the error.
Fail(l) ==
    /\ load[l] # Unused /\ load[l].state = "asked"
    /\ entry' = [i \in Instance |-> IF entry[i] = l THEN NoEntry ELSE entry[i]]
    /\ reader' = [r \in Reader |-> IF reader[r] # Resting /\ reader[r].load = l THEN Resting ELSE reader[r]]
    /\ load' = [load EXCEPT ![l] = Unused]
    /\ UNCHANGED <<tables, written, answered, admin>>

Served(r) ==
    /\ reader[r] # Resting /\ load[reader[r].load].state = "back"
    /\ reader' = [reader EXCEPT ![r] = Resting]
    /\ UNCHANGED <<tables, written, answered, entry, load, admin>>

\* CACHE_MS passes.
Age(i) ==
    /\ entry[i] # NoEntry
    /\ entry' = [entry EXCEPT ![i] = NoEntry]
    /\ UNCHANGED <<tables, written, answered, load, reader, admin>>

\* An instance is stopped: what it had under way is rolled back, and its
\* cache goes with it.
InstanceStops(i) ==
    /\ \/ entry[i] # NoEntry
       \/ \E q \in Admin : admin[q] # Resting /\ admin[q].at = i
    /\ admin' = [q \in Admin |-> IF admin[q] # Resting /\ admin[q].at = i THEN Resting ELSE admin[q]]
    /\ reader' = [r \in Reader |-> IF reader[r] # Resting /\ reader[r].at = i THEN Resting ELSE reader[r]]
    /\ entry' = [entry EXCEPT ![i] = NoEntry]
    /\ UNCHANGED <<tables, written, answered, load>>

-----------------------------------------------------------------------------
(* Account types                                                           *)

ButTypes == UNCHANGED <<step, status, rank, routed, fee, checklist, bank, item, rest>>
Offered(t) == type[t].there /\ type[t].active /\ type[t].opens
OtherOffered(t) == \E u \in Type \ {t} : Offered(u)

CreateAccountType(q, i, t) ==
    /\ ~type[t].there
    /\ type' = [type EXCEPT ![t] = NewType]
    /\ AtOnce(q, i) /\ ButTypes

\* The last type an approval opens is neither made inactive...
BeginUpdateAccountType(q, i, t, active) ==
    /\ type[t].there
    /\ ~active /\ type[t].opens => OtherOffered(t)
    /\ Begins(q, [does |-> "update type", at |-> i, type |-> t, active |-> active])

CommitUpdateAccountType(q) ==
    /\ Does(q, "update type")
    /\ type[admin[q].type].there
    /\ type' = [type EXCEPT ![admin[q].type].active = admin[q].active]
    /\ ButTypes

\* ... nor unmarked.
BeginOpensOnApproval(q, i, t, opens) ==
    /\ type[t].there
    /\ IF opens THEN type[t].active ELSE OtherOffered(t)
    /\ Begins(q, [does |-> "opens", at |-> i, type |-> t, opens |-> opens])

CommitOpensOnApproval(q) ==
    /\ Does(q, "opens")
    /\ LET t == admin[q].type IN
       type' = IF type[t].there THEN [type EXCEPT ![t].opens = admin[q].opens] ELSE type
    /\ ButTypes

BeginDeleteAccountType(q, i, t) ==
    /\ type[t].there /\ ~type[t].opens /\ ~type[t].used
    /\ Begins(q, [does |-> "delete type", at |-> i, type |-> t])

\* What has used the type since refers to it, and the deletion fails.
CommitDeleteAccountType(q) ==
    /\ Does(q, "delete type")
    /\ LET t == admin[q].type IN
       /\ type[t].there /\ ~type[t].used
       /\ type' = [type EXCEPT ![t] = NoType]
    /\ ButTypes

\* An account is opened under the type, applied for, or paid for.
UseType(t) ==
    /\ type[t].there /\ type[t].active
    /\ type' = [type EXCEPT ![t].used = TRUE]
    /\ ButTypes /\ UNCHANGED <<written, caches, admin>>

-----------------------------------------------------------------------------
(* The workflow                                                            *)

ButWorkflow == UNCHANGED <<type, rank, routed, fee, checklist, bank, item, rest>>

BeginStepEnabled(q, i, s, on) ==
    /\ ~on => \E other \in Step \ {s} : step[other]
    /\ Begins(q, [does |-> "step", at |-> i, step |-> s, on |-> on])

CommitStepEnabled(q) ==
    /\ Does(q, "step")
    /\ step' = [step EXCEPT ![admin[q].step] = admin[q].on]
    /\ UNCHANGED status /\ ButWorkflow

BeginStatusActive(q, i, x, on) ==
    /\ ~on => \A s \in Step : step[s] => x \notin Uses[s]
    /\ Begins(q, [does |-> "status", at |-> i, status |-> x, on |-> on])

CommitStatusActive(q) ==
    /\ Does(q, "status")
    /\ status' = [status EXCEPT ![admin[q].status] = admin[q].on]
    /\ UNCHANGED step /\ ButWorkflow

-----------------------------------------------------------------------------
(* The approval matrix: rules in the order of their rank, 0 for none       *)

ButRules == UNCHANGED <<type, step, status, fee, checklist, bank, item, rest>>
Ruling == {r \in Rule : rank[r] # 0}

\* The first rule that matches decides, so a new one is put first. Ranks the
\* code spaces by ten are spaced by one, and skip 0.
First == IF Ruling = {} THEN 1
         ELSE LET least == CHOOSE n \in {rank[r] : r \in Ruling} : \A r \in Ruling : n <= rank[r]
              IN IF least = 1 THEN -1 ELSE least - 1

CreateApprovalRule(q, i, r) ==
    /\ rank[r] = 0
    /\ rank' = [rank EXCEPT ![r] = First]
    /\ UNCHANGED routed /\ AtOnce(q, i) /\ ButRules

\* The order is read...
BeginMoveRule(q, i, r, other) ==
    /\ {r, other} \subseteq Ruling /\ r # other
    /\ \A x \in Ruling \ {r, other} : (rank[x] < rank[r]) <=> (rank[x] < rank[other])
    /\ LET swapped == [rank EXCEPT ![r] = rank[other], ![other] = rank[r]] IN
       Begins(q, [does |-> "move", at |-> i,
                  order |-> [x \in Ruling |-> Cardinality({y \in Ruling : swapped[y] <= swapped[x]})]])

\* ... and each rule that was in it is numbered anew, one created since is not.
CommitMoveRule(q) ==
    /\ Does(q, "move")
    /\ rank' = [r \in Rule |-> IF r \in DOMAIN admin[q].order /\ rank[r] # 0
                                THEN admin[q].order[r] ELSE rank[r]]
    /\ UNCHANGED routed /\ ButRules

BeginDeleteRule(q, i, r) ==
    /\ r \in Ruling \ routed
    /\ Begins(q, [does |-> "delete rule", at |-> i, rule |-> r])

CommitDeleteRule(q) ==
    /\ Does(q, "delete rule")
    /\ admin[q].rule \in Ruling \ routed
    /\ rank' = [rank EXCEPT ![admin[q].rule] = 0]
    /\ UNCHANGED routed /\ ButRules

\* A transaction is routed by a rule (Review).
RouteBy(r) ==
    /\ r \in Ruling \ routed
    /\ routed' = routed \cup {r}
    /\ UNCHANGED rank /\ ButRules /\ UNCHANGED <<written, caches, admin>>

-----------------------------------------------------------------------------
(* Fees, checklists, bank accounts, settings                               *)

ButFees == UNCHANGED <<type, step, status, rank, routed, checklist, bank, item, rest>>

\* The version in force is superseded, then the next one inserted. Of two
\* that superseded the same one, the index lets one insert.
BeginPublishFees(q, i) == Begins(q, [does |-> "publish", at |-> i, superseded |-> fee])

CommitPublishFees(q) ==
    /\ Does(q, "publish")
    /\ fee = admin[q].superseded
    /\ fee' = fee + 1
    /\ ButFees

ButChecklists == UNCHANGED <<type, step, status, rank, routed, fee, bank, rest>>

CreateChecklist(q, i, c) ==
    /\ checklist[c] = "none"
    /\ checklist' = [checklist EXCEPT ![c] = "free"]
    /\ UNCHANGED item
    /\ AtOnce(q, i) /\ ButChecklists

\* The membership type is given this checklist for the one it had.
ChecklistsWith(given) ==
    [d \in Checklist |-> IF d \in given THEN "used" ELSE IF checklist[d] = "used" THEN "free" ELSE checklist[d]]

SetMembershipTypeReferences(q, i, c) ==
    /\ checklist[c] = "free"
    /\ checklist' = ChecklistsWith({c})
    /\ UNCHANGED item
    /\ AtOnce(q, i) /\ ButChecklists

BeginDeleteChecklist(q, i, c) ==
    /\ checklist[c] = "free"
    /\ Begins(q, [does |-> "delete checklist", at |-> i, checklist |-> c])

CommitDeleteChecklist(q) ==
    /\ Does(q, "delete checklist")
    /\ checklist[admin[q].checklist] = "free"
    /\ checklist' = [checklist EXCEPT ![admin[q].checklist] = "none"]
    /\ item' = item \ {admin[q].checklist}
    /\ ButChecklists

\* A document is on a checklist once for each subject.
AddChecklistItem(q, i, c) ==
    /\ checklist[c] # "none" /\ c \notin item
    /\ item' = item \cup {c}
    /\ UNCHANGED checklist /\ AtOnce(q, i) /\ ButChecklists

RemoveChecklistItem(q, i, c) ==
    /\ c \in item
    /\ item' = item \ {c}
    /\ UNCHANGED checklist /\ AtOnce(q, i) /\ ButChecklists

ButBanks == UNCHANGED <<type, step, status, rank, routed, fee, checklist, item, rest>>

\* Marking one account as the member app's unmarks the one that was.
Marked(b, active) ==
    [c \in Bank |-> IF c = b THEN [there |-> TRUE, active |-> active, marked |-> active]
                    ELSE IF bank[c].there /\ active THEN [bank[c] EXCEPT !.marked = FALSE]
                    ELSE bank[c]]
Unmarked(b, active, marked) ==
    [bank EXCEPT ![b] = [there |-> TRUE, active |-> active, marked |-> marked /\ active]]

CreateBankAccount(q, i, b, active, mark) ==
    /\ ~bank[b].there
    /\ bank' = IF mark THEN Marked(b, active) ELSE Unmarked(b, active, FALSE)
    /\ AtOnce(q, i) /\ ButBanks

UpdateBankAccount(q, i, b, active, mark) ==
    /\ bank[b].there
    /\ bank' = IF mark THEN Marked(b, active) ELSE Unmarked(b, active, FALSE)
    /\ AtOnce(q, i) /\ ButBanks

\* A change that says nothing of the mark: only an inactive account loses it.
KeepMark(q, i, b, active) ==
    /\ bank[b].there
    /\ bank' = Unmarked(b, active, bank[b].marked)
    /\ AtOnce(q, i) /\ ButBanks

-----------------------------------------------------------------------------
(* Membership types, payment methods, and what stands by itself            *)

AllBut == UNCHANGED <<type, step, status, rank, routed, fee, checklist, item, bank>>

\* The types an account type may be opened under: those committed when it
\* looked are deleted, those given inserted, in one transaction. Two that
\* overlap leave what both insert.
BeginAccountTypeEligibility(q, i, holders) ==
    Begins(q, [does |-> "eligible", at |-> i, removes |-> eligible, adds |-> holders])

CommitAccountTypeEligibility(q) ==
    /\ Does(q, "eligible")
    /\ eligible' = (eligible \ admin[q].removes) \cup admin[q].adds
    /\ UNCHANGED <<becomes, method, segregation, setting>> /\ AllBut

\* What a minor's type becomes at majority: none, or another one.
SetMajorityTransition(q, i, h, next) ==
    /\ becomes' = [becomes EXCEPT ![h] = next]
    /\ UNCHANGED <<eligible, method, segregation, setting>> /\ AtOnce(q, i) /\ AllBut

CreatePaymentMethod(q, i, p) ==
    /\ p \notin method
    /\ method' = method \cup {p}
    /\ UNCHANGED <<eligible, becomes, segregation, setting>> /\ AtOnce(q, i) /\ AllBut

\* A row of its own, written whole.
WritesRow(q, i, k) ==
    /\ setting' = [setting EXCEPT ![k] = written + 1]
    /\ UNCHANGED <<eligible, becomes, method, segregation>> /\ AtOnce(q, i) /\ AllBut

\* Methods the system writes are not an administrator's to change.
UpdatePaymentMethod(q, i, k, p) == p \in method \ SystemMethod /\ WritesRow(q, i, k)

\* A rule on file keeps its rank, whatever it says from now on.
UpdateApprovalRule(q, i, k, r) == r \in Ruling /\ WritesRow(q, i, k)

\* An item on a checklist is asked for, or may be.
SetChecklistItemRequirement(q, i, k, c) == c \in item /\ WritesRow(q, i, k)

\* Figures and switches kept in one row each, and fields of a row whose
\* other fields stay as they are.
SetNomineeCount(q, i, k) == WritesRow(q, i, k)
SetFieldRule(q, i, k) == WritesRow(q, i, k)
SetStepRole(q, i, k) == WritesRow(q, i, k)
SetStepQuorum(q, i, k) == WritesRow(q, i, k)
SetCashSourceOfFundThreshold(q, i, k) == WritesRow(q, i, k)
SetCashMaximum(q, i, k) == WritesRow(q, i, k)
SetTakafulBenefit(q, i, k) == WritesRow(q, i, k)
SetNearFloorMargin(q, i, k) == WritesRow(q, i, k)
SetEnabledMemberOperations(q, i, k) == WritesRow(q, i, k)
SetSessionIdleMinutes(q, i, k) == WritesRow(q, i, k)
SetDormancyMonths(q, i, k) == WritesRow(q, i, k)
SetDormancyReactivation(q, i, k) == WritesRow(q, i, k)
SetResignationChecks(q, i, k) == WritesRow(q, i, k)
SetCashSourceOfFundChecklist(q, i, k) == WritesRow(q, i, k)
UpdateNotificationTemplate(q, i, k) == WritesRow(q, i, k)

Writing(q, i, k) ==
    \/ SetNomineeCount(q, i, k) \/ SetFieldRule(q, i, k) \/ SetStepRole(q, i, k) \/ SetStepQuorum(q, i, k)
    \/ SetCashSourceOfFundThreshold(q, i, k) \/ SetCashSourceOfFundChecklist(q, i, k)
    \/ SetCashMaximum(q, i, k) \/ SetTakafulBenefit(q, i, k) \/ SetNearFloorMargin(q, i, k)
    \/ SetEnabledMemberOperations(q, i, k) \/ SetSessionIdleMinutes(q, i, k)
    \/ SetDormancyMonths(q, i, k) \/ SetDormancyReactivation(q, i, k) \/ SetResignationChecks(q, i, k)
    \/ UpdateNotificationTemplate(q, i, k)
    \/ \E p \in Method : UpdatePaymentMethod(q, i, k, p)

-----------------------------------------------------------------------------
(* Segregation rules: switched on and off, never deleted. They are not in  *)
(* the cache, and there is none to clear.                                  *)

\* The words of a pair, if it is one of two different actions.
HasDescription(p) == p \in Pair /\ p[2] # p[3]

SwitchesRule(q, p, state) ==
    /\ admin[q] = Resting /\ written < MaxWrites
    /\ segregation' = [segregation EXCEPT ![p] = state]
    /\ written' = written + 1
    /\ UNCHANGED <<eligible, becomes, method, setting, caches, admin>> /\ AllBut

\* A pair on file and off is switched on rather than refused.
AddSegregationRule(q, p) == HasDescription(p) /\ segregation[p] # "on" /\ SwitchesRule(q, p, "on")

SetSegregationRuleEnabled(q, p, state) ==
    /\ segregation[p] \notin {"none", state}
    /\ SwitchesRule(q, p, state)

-----------------------------------------------------------------------------
(* A workbook, one sheet of it at a time. Rows are added and changed, never *)
(* deleted, and held to the constraints of their table and to the check    *)
(* their sheet names. A file with a problem, or only checked, changes      *)
(* nothing.                                                                *)

Sheet(q, i) == AtOnce(q, i)

\* What the rows of a sheet name, a key being in it once, and what they refer
\* to being on file.
NamedIn(keys) == SUBSET keys

\* What one row may have, or none has.
AtMostOne(rows) == {{}} \cup {{r} : r \in rows}

\* A row finds what it names on file, or adds it.
With(onFile, named) == onFile \cup named

ImportAccountTypes(q, i) ==
    /\ \E active, opens \in SUBSET Type :
         type' = [t \in Type |-> [there |-> TRUE, active |-> t \in active, opens |-> t \in opens,
                                  used |-> IF type[t].there THEN type[t].used ELSE FALSE]]
    /\ Sheet(q, i) /\ ButTypes

ImportWorkflow(q, i) ==
    /\ step' \in [Step -> BOOLEAN]
    /\ status' \in [Status -> BOOLEAN]
    /\ Sheet(q, i) /\ ButWorkflow

ImportChecklists(q, i) ==
    /\ \E named \in NamedIn(Checklist) :
         checklist' = [c \in Checklist |-> IF c \in named /\ checklist[c] = "none" THEN "free" ELSE checklist[c]]
    /\ UNCHANGED item /\ Sheet(q, i) /\ ButChecklists

ImportChecklistItems(q, i) ==
    /\ \E named \in NamedIn({c \in Checklist : checklist[c] # "none"}) : item' = With(item, named)
    /\ UNCHANGED checklist /\ Sheet(q, i) /\ ButChecklists

\* The type has the sheet's checklist, or none; what it becomes at majority
\* waits until every type of the sheet is on file.
ImportMembershipTypes(q, i) ==
    /\ \E given \in AtMostOne({c \in Checklist : checklist[c] # "none"}) :
         checklist' = ChecklistsWith(given)
    /\ becomes' \in [Membership -> Membership]
    /\ UNCHANGED <<type, step, status, rank, routed, fee, bank, item, eligible, method, segregation, setting>>
    /\ Sheet(q, i)

ImportEligibility(q, i) ==
    /\ \E named \in NamedIn(Membership) : eligible' = With(eligible, named)
    /\ UNCHANGED <<becomes, method, segregation, setting>> /\ Sheet(q, i) /\ AllBut

\* Which methods are the system's is not the sheet's to say.
ImportPaymentMethods(q, i) ==
    /\ \E named \in NamedIn(Method) : method' = With(method, named)
    /\ UNCHANGED <<eligible, becomes, segregation, setting>> /\ Sheet(q, i) /\ AllBut

\* A marked account is active, and one row at most is given the mark, which
\* the row that had it loses.
ImportBankAccounts(q, i) ==
    /\ \E named \in NamedIn(Bank) : \E active \in SUBSET named : \E mark \in AtMostOne(active) :
         bank' = [b \in Bank |-> IF b \in named THEN [there |-> TRUE, active |-> b \in active, marked |-> b \in mark]
                                 ELSE IF bank[b].there /\ mark # {} THEN [bank[b] EXCEPT !.marked = FALSE]
                                 ELSE bank[b]]
    /\ Sheet(q, i) /\ ButBanks

\* A row switches a rule on file, or adds one the page would.
ImportSegregation(q, i) ==
    /\ \E named \in NamedIn({p \in Pair : segregation[p] # "none" \/ HasDescription(p)}), on \in SUBSET Pair :
         segregation' = [p \in Pair |-> IF p \notin named THEN segregation[p] ELSE IF p \in on THEN "on" ELSE "off"]
    /\ UNCHANGED <<eligible, becomes, method, setting>> /\ Sheet(q, i) /\ AllBut

ImportSettings(q, i) ==
    /\ \E changed \in SUBSET Setting :
         /\ changed # {}
         /\ setting' = [k \in Setting |-> IF k \in changed THEN written + 1 ELSE setting[k]]
    /\ UNCHANGED <<eligible, becomes, method, segregation>> /\ Sheet(q, i) /\ AllBut

\* Fees that differ from those in force become the next version.
ImportFees(q, i) == fee' = fee + 1 /\ Sheet(q, i) /\ ButFees

-----------------------------------------------------------------------------

Changes(q, i) ==
    \/ \E t \in Type :
         \/ CreateAccountType(q, i, t) \/ BeginDeleteAccountType(q, i, t)
         \/ \E on \in BOOLEAN : BeginUpdateAccountType(q, i, t, on) \/ BeginOpensOnApproval(q, i, t, on)
    \/ \E s \in Step, on \in BOOLEAN : BeginStepEnabled(q, i, s, on)
    \/ \E x \in Status, on \in BOOLEAN : BeginStatusActive(q, i, x, on)
    \/ \E r \in Rule : CreateApprovalRule(q, i, r) \/ BeginDeleteRule(q, i, r)
                       \/ \E other \in Rule : BeginMoveRule(q, i, r, other)
    \/ BeginPublishFees(q, i)
    \/ \E c \in Checklist : CreateChecklist(q, i, c) \/ SetMembershipTypeReferences(q, i, c)
                            \/ BeginDeleteChecklist(q, i, c)
    \/ \E b \in Bank, active \in BOOLEAN :
         \/ KeepMark(q, i, b, active)
         \/ \E mark \in BOOLEAN : CreateBankAccount(q, i, b, active, mark)
                                   \/ UpdateBankAccount(q, i, b, active, mark)
    \/ \E c \in Checklist : AddChecklistItem(q, i, c) \/ RemoveChecklistItem(q, i, c)
    \/ \E holders \in SUBSET Membership : BeginAccountTypeEligibility(q, i, holders)
    \/ \E h, next \in Membership : SetMajorityTransition(q, i, h, next)
    \/ \E p \in Method : CreatePaymentMethod(q, i, p)
    \/ \E p \in Pair : AddSegregationRule(q, p) \/ \E state \in {"on", "off"} : SetSegregationRuleEnabled(q, p, state)
    \/ ImportAccountTypes(q, i) \/ ImportWorkflow(q, i) \/ ImportFees(q, i)
    \/ ImportChecklists(q, i) \/ ImportChecklistItems(q, i) \/ ImportMembershipTypes(q, i) \/ ImportEligibility(q, i)
    \/ ImportPaymentMethods(q, i) \/ ImportBankAccounts(q, i) \/ ImportSegregation(q, i)

Answers(q) ==
    \/ CommitUpdateAccountType(q) \/ CommitOpensOnApproval(q) \/ CommitDeleteAccountType(q)
    \/ CommitStepEnabled(q) \/ CommitStatusActive(q) \/ CommitMoveRule(q) \/ CommitDeleteRule(q)
    \/ CommitPublishFees(q) \/ CommitDeleteChecklist(q)
    \/ CommitAccountTypeEligibility(q)
    \/ Refused(q) \/ ClearCache(q)

Others == (\E t \in Type : UseType(t)) \/ \E r \in Rule : RouteBy(r)

Settings(q, i) ==
    \/ ImportSettings(q, i)
    \/ \E k \in Setting : Writing(q, i, k)

\* Those about rows of a table above.
RowSettings(q, i) ==
    \E k \in Setting :
        \/ \E r \in Rule : UpdateApprovalRule(q, i, k, r)
        \/ \E c \in Checklist : SetChecklistItemRequirement(q, i, k, c)

Reads ==
    \/ \E r \in Reader : Served(r) \/ \E i \in Instance : Read(r, i)
    \/ \E l \in Load : Query(l) \/ Resolve(l) \/ Fail(l)
    \/ \E i \in Instance : Age(i) \/ InstanceStops(i)

ConfigurationNext ==
    \/ \E q \in Admin : Answers(q) \/ \E i \in Instance : Changes(q, i) \/ Settings(q, i) \/ RowSettings(q, i)
    \/ Others
    \/ Reads

-----------------------------------------------------------------------------

\* A read begun on an instance after a change was answered there is not
\* served the rows from before it, whoever loaded them and whenever: not by
\* an entry kept, nor by a load that was under way as the change committed
\* (cache.ts, withConfigurationActor). Another instance may lag.
ReadYourWrites ==
    \A r \in Reader :
        reader[r] # Resting /\ load[reader[r].load].state \in {"read", "back"} =>
            load[reader[r].load].saw >= reader[r].since
=============================================================================
