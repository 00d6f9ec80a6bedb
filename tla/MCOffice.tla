------------------------------ MODULE MCOffice ------------------------------
(***************************************************************************)
(* The back office: the import, members' records, the configuration and    *)
(* the staff share no rows here, so a step is one component's while the    *)
(* others are as they start.  Requests of every kind are q1 and q2.        *)
(***************************************************************************)
EXTENDS Migration, Members, Configuration, Access, TLC

CONSTANTS q1, q2, p1, p2, x, y, z

Requests == {q1, q2}
Persons == {p1, p2}
Alike == Permutations(Requests)
StepStatuses == {x, y, z}
Acts == "transaction" :> [earlier |-> {"captured", "reviewed"}, later |-> {"reviewed"}]
StepUses == "u" :> {x, y} @@ "v" :> {y, z}

(* Migration: two requests at once are at the same kind of work, and one   *)
(* account at most is used by its holder.                                  *)
Placed == p1 :> 1 @@ p2 :> 2
Row(k, s, g, a, m) == [kind |-> k, status |-> s, guardian |-> g, savings |-> a, money |-> m]
Old == p1 :> {Row("member", "active", Nobody, "none", {"membership"}),
              Row("member", "resigned", Nobody, "closed", {})}
    @@ p2 :> {Row("customer", "active", p1, "none", {}),
              Row("customer", "active", Nobody, "open", {"savings"})}
Earlier == {<<>>, p1 :> [by |-> Branch, kind |-> "member", status |-> "active"],
                  p2 :> [by |-> Branch, kind |-> "customer", status |-> "active"]}
ForTheImport == {"sweep", "claim", "rows", "new", "row", "written", "refused"}
SameWork ==
    \/ \E q \in Importer : importing[q] = NotImporting
    \/ \A q \in Importer : importing[q].does \in ForTheImport
    \/ \A q \in Importer : importing[q].does \notin ForTheImport
OneUsed ==
    Cardinality({a \in Person \X Accounts : Holds(a[1], a[2]) /\ account[a[1]][a[2]].holds = "own"}) <= 1
MigrationStory == MigrationNext /\ SameWork' /\ OneUsed'

(* Members: the details of one holder, or their guardian and the jobs.     *)
NoDetailsYet ==
    \A h \in Holder : form[h] = NoForm /\ asked[h] = NotAsked /\ \A f \in Field : details[h][f] = Empty
NoGuardianYet ==
    /\ \A h \in Holder : minor[h] /\ ~change[h].open /\ guardian[h] = CHOOSE a \in Adult : TRUE
    /\ \A a \in Adult : standing[a] = "active" /\ ~quiet[a]
    /\ \A q \in Counter : counter[q].does \notin {"guardian", "dormancy"}
OneAtTheCounter == \E q \in Counter : counter'[q] = NobodyThere
MembersStory ==
    \/ NoGuardianYet /\ DetailsNext /\ OneAtTheCounter
    \/ /\ NoDetailsYet /\ \A q \in Counter : counter[q].does \notin {"submit", "request"}
       /\ GuardianNext
    \/ \E q \in Counter : ServerDies(q)

(* Configuration: settings and the cache, or one table.                    *)
TypesStill == type = [t \in Type |-> [NewType EXCEPT !.opens = TRUE]]
StepsStill == step = [s \in Step |-> TRUE] /\ status = [s \in Status |-> TRUE]
RulesStill == routed = {} /\ rank = [r \in Rule |-> 0]
FeesStill == fee = 1
ChecklistsStill == checklist = [c \in Checklist |-> "none"] /\ item = {}
TypesOfMemberStill == eligible = Membership /\ becomes = [h \in Membership |-> h]
MethodsStill == method = SystemMethod
SegregationStill == segregation = [p \in Pair |-> "none"]
BanksStill == bank = [b \in Bank |-> NoBank]
NobodyReads ==
    /\ \A l \in Load : load[l] = Unused
    /\ \A r \in Reader : reader[r] = Resting
    /\ \A i \in Instance : entry[i] = NoEntry
\* How many tables are not as they start.
Touched == Cardinality({n \in 1..9 : ~ <<TypesStill, StepsStill, RulesStill, FeesStill, ChecklistsStill, BanksStill,
                                        TypesOfMemberStill, MethodsStill, SegregationStill>>[n]})
OneTable ==
    /\ Touched <= 1
    /\ \A p, q \in Admin : Resting \in {admin[p], admin[q]} \/ admin[p].does = admin[q].does
                           \/ "clear" \in {admin[p].does, admin[q].does}
SettingsOnly ==
    /\ Touched = 0
    /\ written # 0 => \E k \in Setting : setting[k] # 0
    /\ \A q \in Admin : admin[q].does \in {"nothing", "clear"}
ConfigurationStory ==
    \/ SettingsOnly /\ (Reads \/ \E q \in Admin : ClearCache(q) \/ \E i \in Instance : Settings(q, i))
    \/ /\ NobodyReads /\ (Touched # 0 \/ \A k \in Setting : setting[k] = 0)
       /\ \/ Others
          \/ \E q \in Admin : \/ Answers(q)
                              \/ Changes(q, CHOOSE i \in Instance : TRUE)
                              \/ RowSettings(q, CHOOSE i \in Instance : TRUE)
       /\ OneTable'

(* One component at a time.                                                *)
MigrationStill == MigrationInit /\ \A p \in Person : record[p] = Absent
MembersStill == MembersInit /\ NoGuardianYet

OfficeInit == MigrationInit /\ MembersStill /\ ConfigurationInit /\ AccessInit

OfficeNext ==
    \/ /\ MembersStill /\ ConfigurationInit /\ AccessInit
       /\ MigrationStory
       /\ UNCHANGED <<people, configuration, access>>
    \/ /\ MigrationStill /\ ConfigurationInit /\ AccessInit
       /\ MembersStory
       /\ UNCHANGED <<migration, configuration, access>>
    \/ /\ MigrationStill /\ MembersStill /\ AccessInit
       /\ ConfigurationStory
       /\ UNCHANGED <<migration, people, access>>
    \/ /\ MigrationStill /\ MembersStill /\ ConfigurationInit
       /\ AccessNext
       /\ UNCHANGED <<migration, people, configuration>>

OfficeSpec == OfficeInit /\ [][OfficeNext]_<<migration, people, configuration, access>>
=============================================================================
