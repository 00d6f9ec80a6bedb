---------------------------- MODULE OfficeProofs ----------------------------
(***************************************************************************)
(* The back office: theorems about who may do what (Access), for any       *)
(* number of accounts, roles, sessions and requests, and about what the    *)
(* configuration cache serves (Configuration), for any number of           *)
(* instances, loads, readers and administrators, and about what an import  *)
(* and its cancelling leave alone (Migration), for any register, files,    *)
(* batches and requests; and about corrections to a member's details while *)
(* a request to change them waits (Members), for any fields and holders.   *)
(***************************************************************************)
EXTENDS Access, Configuration, Migration, Members, TLAPS

AccessSpec == AccessInit /\ [][AccessNext]_access

StaffRows ==
    [there : {TRUE}, active : BOOLEAN, bound : BOOLEAN, used : BOOLEAN, roles : SUBSET Role]
Visits == [signedIn : {TRUE}, of : Staff, ended : BOOLEAN]
Requests == [does : {"arrives", "acts"}, on : Visit, needs : Permission, could : BOOLEAN]

AccessTyped ==
    /\ staff \in [Staff -> StaffRows \cup {NoAccount}]
    /\ visit \in [Visit -> Visits \cup {NoVisit}]
    /\ web \in [Web -> Requests \cup {Waiting}]
    /\ office = [q \in Desk |-> office[q]]
    /\ \A q \in Desk : office[q].does = "roles" => office[q].adds \subseteq Role

\* A request is on a session that was opened; one that waits for its answer
\* could have been admitted if it could be now, and one that acts could.
Just(w) ==
    w.does # "nothing" =>
        /\ visit[w.on] \in Visits
        /\ w.does = "arrives" /\ Could(w.on, w.needs) => w.could
        /\ w.does = "acts" => w.could

AccessInv == AccessTyped /\ \A w \in Web : Just(web[w])

LEMMA RequestIs ==
    ASSUME AccessTyped, NEW w \in Web
    PROVE  /\ web[w] \in Requests \/ (web[w] = Waiting /\ web[w].does = "nothing")
           /\ web[w].does # "nothing" =>
                 /\ web[w] \in Requests /\ web[w].on \in Visit /\ web[w].needs \in Permission
                 /\ web[w].could \in BOOLEAN /\ web[w].does \in {"arrives", "acts"}
BY DEF AccessTyped, Requests, Waiting

\* Steps of the office: whoever is admitted, each request that waits is asked
\* whether it could be now.
LEMMA Witnessed ==
    ASSUME AccessInv, Witness,
           staff' \in [Staff -> StaffRows \cup {NoAccount}], visit' \in [Visit -> Visits \cup {NoVisit}],
           office' = [q \in Desk |-> office'[q]],
           \A q \in Desk : office'[q].does = "roles" => office'[q].adds \subseteq Role,
           \A v \in Visit : visit[v] \in Visits => visit'[v] \in Visits
    PROVE  AccessInv'
<1>1. ASSUME NEW w \in Web
      PROVE  web'[w] \in Requests \cup {Waiting} /\ Just(web[w])'
  <2>1. CASE web[w].does = "arrives"
    <3>1. PICK old : old = web[w]
      OBVIOUS
    <3>2. /\ old \in Requests /\ old.on \in Visit /\ old.needs \in Permission
          /\ old.could \in BOOLEAN /\ old.does = "arrives" /\ visit[old.on] \in Visits
      BY <2>1, <3>1, RequestIs DEF AccessInv, Just
    <3>3. PICK could \in BOOLEAN : could <=> (old.could \/ Could(old.on, old.needs)')
      OBVIOUS
    <3>4. web'[w] = [old EXCEPT !.could = could]
      BY <2>1, <3>1, <3>2, <3>3 DEF Witness, AccessInv, AccessTyped
    <3>5. /\ web'[w] \in Requests /\ web'[w].on = old.on /\ web'[w].needs = old.needs
          /\ web'[w].does = "arrives" /\ (web'[w].could <=> could)
      BY <3>2, <3>4 DEF Requests
    <3>6. visit'[old.on] \in Visits
      BY <3>2
    <3>7. Could(old.on, old.needs)' => could
      BY <3>3
    <3> QED BY <3>2, <3>5, <3>6, <3>7 DEF Just
  <2>2. CASE web[w].does # "arrives"
    <3>1. web'[w] = web[w]
      BY <2>2 DEF Witness, AccessInv, AccessTyped
    <3>2. web[w].does # "nothing" => web[w].on \in Visit
      BY RequestIs DEF AccessInv
    <3>3. Just(web[w]) /\ web[w] \in Requests \cup {Waiting}
      BY DEF AccessInv, AccessTyped
    <3> QED BY <2>2, <3>1, <3>2, <3>3 DEF Just
  <2> QED BY <2>1, <2>2
<1>2. web' = [w \in Web |-> web'[w]]
  BY DEF Witness, AccessInv, AccessTyped
<1>3. AccessTyped'
  BY <1>1, <1>2 DEF AccessTyped
<1> QED BY <1>1, <1>3 DEF AccessInv

\* One account changes, and the requests that wait look again.
LEMMA AccountChanges ==
    ASSUME AccessInv, Witness, NEW u, NEW a \in StaffRows \cup {NoAccount},
           staff' = [staff EXCEPT ![u] = a], visit' = visit,
           office' = office \/ \E q \in Desk : office' = [office EXCEPT ![q] = Waiting]
    PROVE  AccessInv'
<1>1. staff' \in [Staff -> StaffRows \cup {NoAccount}] /\ visit' \in [Visit -> Visits \cup {NoVisit}]
  BY DEF AccessInv, AccessTyped
<1>2. /\ office' = [q \in Desk |-> office'[q]]
      /\ \A q \in Desk : office'[q].does = "roles" => office'[q].adds \subseteq Role
  BY DEF AccessInv, AccessTyped, Waiting
<1> QED BY <1>1, <1>2, Witnessed

\* What a role grants changes, and the requests that wait look again.
LEMMA RoleChanges ==
    ASSUME AccessInv, Witness, staff' = staff, visit' = visit,
           office' = office \/ \E q \in Desk : office' = [office EXCEPT ![q] = Waiting]
    PROVE  AccessInv'
<1>1. staff' \in [Staff -> StaffRows \cup {NoAccount}] /\ visit' \in [Visit -> Visits \cup {NoVisit}]
  BY DEF AccessInv, AccessTyped
<1>2. /\ office' = [q \in Desk |-> office'[q]]
      /\ \A q \in Desk : office'[q].does = "roles" => office'[q].adds \subseteq Role
  BY DEF AccessInv, AccessTyped, Waiting
<1> QED BY <1>1, <1>2, Witnessed

LEMMA AccountIs ==
    ASSUME AccessTyped, NEW u, staff[u].there, u \in Staff
    PROVE  staff[u] \in StaffRows
BY DEF AccessTyped, NoAccount

-----------------------------------------------------------------------------
(* An administrator's steps                                                *)

LEMMA RoleReplaced ==
    ASSUME AccessInv, NEW q \in Desk, SetRolePermissions(q) \/ DeleteRole(q)
    PROVE  AccessInv'
<1>1. Witness /\ staff' = staff /\ visit' = visit /\ office' = [office EXCEPT ![q] = Waiting]
  BY DEF SetRolePermissions, DeleteRole, Ends
<1> QED BY <1>1, RoleChanges

LEMMA RoleWritten ==
    ASSUME AccessInv, NEW r, NEW ps, CreateRole(r, ps) \/ ImportRoles(r, ps)
    PROVE  AccessInv'
<1>1. Witness /\ staff' = staff /\ visit' = visit /\ office' = office
  BY DEF CreateRole, ImportRoles
<1> QED BY <1>1, RoleChanges

LEMMA SetUserRolesStep ==
    ASSUME AccessInv, NEW q \in Desk, SetUserRoles(q)
    PROVE  AccessInv'
<1>1. PICK u : u = office[q].user
  OBVIOUS
<1>2. PICK roles : roles = (staff[u].roles \ office[q].removes) \cup {r \in office[q].adds : grant[r].there}
  OBVIOUS
<1>3. /\ office[q].does = "roles" /\ office' = [office EXCEPT ![q] = Waiting] /\ visit' = visit
      /\ Witness /\ staff[u].there
      /\ staff' = [staff EXCEPT ![u].roles = roles]
  BY <1>1, <1>2 DEF SetUserRoles, Ends
<1>4. CASE u \in Staff
  <2>1. PICK old : old = staff[u]
    OBVIOUS
  <2>2. old \in StaffRows
    BY <1>3, <1>4, <2>1, AccountIs DEF AccessInv
  <2>3. roles \subseteq Role
    BY <1>1, <1>2, <1>3, <2>1, <2>2 DEF AccessInv, AccessTyped, StaffRows
  <2>4. PICK new : new = [old EXCEPT !.roles = roles]
    OBVIOUS
  <2>5. new \in StaffRows
    BY <2>2, <2>3, <2>4 DEF StaffRows
  <2>6. staff' = [staff EXCEPT ![u] = new]
    BY <1>3, <2>1, <2>4
  <2> QED BY <1>3, <2>5, <2>6, AccountChanges
<1>5. CASE u \notin Staff
  <2>1. staff' = staff
    BY <1>3, <1>5 DEF AccessInv, AccessTyped
  <2> QED BY <1>3, <2>1, RoleChanges
<1> QED BY <1>4, <1>5

LEMMA AccountDeleted ==
    ASSUME AccessInv, NEW q \in Desk, DeleteStaffAccount(q)
    PROVE  AccessInv'
<1>1. PICK s : s = office[q].user
  OBVIOUS
<1>2. /\ staff' = [staff EXCEPT ![s] = NoAccount] /\ Witness /\ visit' = visit
      /\ office' = [office EXCEPT ![q] = Waiting]
  BY <1>1 DEF DeleteStaffAccount, Ends
<1> QED BY <1>2, AccountChanges

LEMMA AccountCreated ==
    ASSUME AccessInv, NEW u \in Staff, NEW rs \in SUBSET Role, CreateStaffAccount(u, rs)
    PROVE  AccessInv'
<1>1. NewAccount(rs) \in StaffRows
  BY DEF NewAccount, StaffRows
<1>2. staff' = [staff EXCEPT ![u] = NewAccount(rs)] /\ Witness /\ visit' = visit /\ office' = office
  BY DEF CreateStaffAccount
<1> QED BY <1>1, <1>2, AccountChanges

LEMMA AccountSwitched ==
    ASSUME AccessInv, NEW u \in Staff, NEW on \in BOOLEAN, SetUserActive(u, on)
    PROVE  AccessInv'
<1>1. PICK old : old = staff[u]
  OBVIOUS
<1>2. old \in StaffRows
  BY <1>1, AccountIs DEF AccessInv, SetUserActive
<1>3. PICK new : new = [old EXCEPT !.active = on]
  OBVIOUS
<1>4. new \in StaffRows
  BY <1>2, <1>3 DEF StaffRows
<1>5. staff' = [staff EXCEPT ![u] = new] /\ Witness /\ visit' = visit /\ office' = office
  BY <1>1, <1>3 DEF SetUserActive
<1> QED BY <1>4, <1>5, AccountChanges

\* A request taken up changes only what lies on the administrator's desk.
LEMMA DeskStep ==
    ASSUME AccessInv, UNCHANGED <<staff, grant, visit, web>>, NEW q \in Desk, NEW request,
           request.does = "roles" => request.adds \subseteq Role,
           office' = [office EXCEPT ![q] = request]
    PROVE  AccessInv'
<1>1. /\ office' = [d \in Desk |-> office'[d]]
      /\ \A d \in Desk : office'[d].does = "roles" => office'[d].adds \subseteq Role
  BY DEF AccessInv, AccessTyped
<1> QED BY <1>1 DEF AccessInv, AccessTyped, Just, Could, MayDo

LEMMA RoleTakenUp ==
    ASSUME AccessInv, NEW q \in Desk, NEW r, NEW ps,
           BeginSetRolePermissions(q, r, ps) \/ BeginDeleteRole(q, r)
    PROVE  AccessInv'
<1>1. CASE BeginSetRolePermissions(q, r, ps)
  BY <1>1, DeskStep DEF BeginSetRolePermissions, Starts
<1>2. CASE BeginDeleteRole(q, r)
  BY <1>2, DeskStep DEF BeginDeleteRole, Starts
<1> QED BY <1>1, <1>2

LEMMA AccountTakenUp ==
    ASSUME AccessInv, NEW q \in Desk, NEW u, NEW rs \in SUBSET Role,
           BeginSetUserRoles(q, u, rs) \/ BeginDeleteStaff(q, u) \/ GiveUp(q)
    PROVE  AccessInv'
<1>1. CASE BeginSetUserRoles(q, u, rs)
  BY <1>1, DeskStep DEF BeginSetUserRoles, Starts
<1>2. CASE BeginDeleteStaff(q, u)
  BY <1>2, DeskStep DEF BeginDeleteStaff, Starts
<1>3. CASE GiveUp(q)
  BY <1>3, DeskStep DEF GiveUp, Waiting
<1> QED BY <1>1, <1>2, <1>3

-----------------------------------------------------------------------------
(* Sessions and requests                                                   *)

LEMMA SignOutStep ==
    ASSUME AccessInv, NEW v \in Visit, SignOut(v)
    PROVE  AccessInv'
<1>1. /\ visit[v].signedIn /\ visit' = [visit EXCEPT ![v].ended = TRUE]
      /\ Witness /\ staff' = staff /\ office' = office
  BY DEF SignOut
<1>2. PICK old : old = visit[v]
  OBVIOUS
<1>3. old \in Visits
  BY <1>1, <1>2 DEF AccessInv, AccessTyped, NoVisit
<1>4. PICK new : new = [old EXCEPT !.ended = TRUE]
  OBVIOUS
<1>5. new \in Visits
  BY <1>3, <1>4 DEF Visits
<1>6. visit' = [visit EXCEPT ![v] = new]
  BY <1>1, <1>2, <1>4
<1>7. /\ visit' \in [Visit -> Visits \cup {NoVisit}]
      /\ \A x \in Visit : visit[x] \in Visits => visit'[x] \in Visits
  BY <1>5, <1>6 DEF AccessInv, AccessTyped
<1> QED BY <1>1, <1>7, Witnessed DEF AccessInv, AccessTyped

LEMMA SignInStep ==
    ASSUME AccessInv, NEW v \in Visit, NEW u \in Staff, SignIn(v, u)
    PROVE  AccessInv'
<1>1. visit[v] \notin Visits /\ [signedIn |-> TRUE, of |-> u, ended |-> FALSE] \in Visits
  <2>1. ~visit[v].signedIn
    BY DEF SignIn, NoVisit
  <2>2. \A x \in Visits : x.signedIn
    BY DEF Visits
  <2> QED BY <2>1, <2>2 DEF Visits
<1>2. visit' \in [Visit -> Visits \cup {NoVisit}]
  BY <1>1 DEF SignIn, AccessInv, AccessTyped
<1>3. \A x \in Visit : visit[x] \in Visits => visit'[x] = visit[x]
  BY <1>1 DEF SignIn, AccessInv, AccessTyped
<1>4. ASSUME NEW w \in Web
      PROVE  Just(web[w])'
  <2>1. web'[w] = web[w] /\ staff' = staff /\ grant' = grant
    BY DEF SignIn
  <2>2. Just(web[w]) /\ (web[w].does # "nothing" => web[w].on \in Visit)
    BY RequestIs DEF AccessInv
  <2> QED BY <1>3, <2>1, <2>2 DEF Just, Could, MayDo
<1> QED BY <1>2, <1>4 DEF SignIn, AccessInv, AccessTyped

\* A request that arrives, is answered or ends; no other is touched.
LEMMA ArriveStep ==
    ASSUME AccessInv, NEW w \in Web, NEW v \in Visit, NEW p \in Permission, Arrive(w, v, p)
    PROVE  AccessInv'
<1>1. visit[v] \in Visits
  BY DEF Arrive, AccessInv, AccessTyped, NoVisit
<1>2. PICK could \in BOOLEAN : could <=> Could(v, p)
  OBVIOUS
<1>3. PICK new : new = [does |-> "arrives", on |-> v, needs |-> p, could |-> could]
  OBVIOUS
<1>4. new \in Requests /\ Just(new)
  BY <1>1, <1>2, <1>3 DEF Requests, Just
<1>5. /\ web' = [web EXCEPT ![w] = [does |-> "arrives", on |-> v, needs |-> p, could |-> Could(v, p)]]
      /\ UNCHANGED <<staff, grant, visit, office>>
  BY DEF Arrive
<1>6. [does |-> "arrives", on |-> v, needs |-> p, could |-> Could(v, p)] = new
  BY <1>2, <1>3 DEF Could
<1>7. web' = [web EXCEPT ![w] = new]
  BY <1>5, <1>6
<1> QED BY <1>4, <1>5, <1>7 DEF AccessInv, AccessTyped, Just, Could, MayDo

LEMMA AdmitStep ==
    ASSUME AccessInv, NEW w \in Web, Admit(w)
    PROVE  AccessInv'
<1>1. PICK old : old = web[w]
  OBVIOUS
<1>2. old \in Requests /\ old.does = "arrives" /\ visit[old.on] \in Visits
  BY <1>1, RequestIs DEF Admit, AccessInv, Just
<1>3. Could(old.on, old.needs) /\ old.could
  BY <1>1, <1>2 DEF Admit, Admits, Could, AccessInv, Just
<1>4. PICK new : new = [old EXCEPT !.does = "acts"]
  OBVIOUS
<1>5. new \in Requests /\ new.on = old.on /\ new.does = "acts" /\ new.could = old.could
  BY <1>2, <1>4 DEF Requests
<1>6. Just(new)
  BY <1>2, <1>3, <1>5 DEF Just
<1>7. web' = [web EXCEPT ![w] = new] /\ UNCHANGED <<staff, grant, visit, office>>
  BY <1>1, <1>4 DEF Admit
<1> QED BY <1>5, <1>6, <1>7 DEF AccessInv, AccessTyped, Just, Could, MayDo

LEMMA DenyStep ==
    ASSUME AccessInv, NEW w \in Web, Deny(w)
    PROVE  AccessInv'
<1>1. web' = [web EXCEPT ![w] = Waiting] /\ UNCHANGED <<staff, grant, visit, office>>
  BY DEF Deny
<1>2. Just(Waiting)
  BY DEF Just, Waiting
<1> QED BY <1>1, <1>2 DEF AccessInv, AccessTyped, Just, Could, MayDo

LEMMA FinishStep ==
    ASSUME AccessInv, NEW w \in Web, Finish(w)
    PROVE  AccessInv'
<1>1. PICK u : u = visit[web[w].on].of
  OBVIOUS
<1>2. staff' = [staff EXCEPT ![u] = IF @.there THEN [@ EXCEPT !.used = TRUE] ELSE @]
  BY <1>1 DEF Finish
<1>3. ASSUME NEW x \in Staff
      PROVE  /\ staff'[x] \in StaffRows \cup {NoAccount}
             /\ staff'[x].there = staff[x].there
             /\ staff[x].there => staff'[x].active = staff[x].active /\ staff'[x].roles = staff[x].roles
  <2>1. PICK old : old = staff[x]
    OBVIOUS
  <2>2. CASE x = u /\ old.there
    <3>1. old \in StaffRows
      BY <2>1, <2>2, AccountIs DEF AccessInv
    <3>2. staff'[x] = [old EXCEPT !.used = TRUE]
      BY <1>2, <2>1, <2>2 DEF AccessInv, AccessTyped
    <3> QED BY <2>1, <3>1, <3>2 DEF StaffRows
  <2>3. CASE ~(x = u /\ old.there)
    <3>1. staff'[x] = staff[x]
      BY <1>2, <2>1, <2>3 DEF AccessInv, AccessTyped
    <3> QED BY <3>1 DEF AccessInv, AccessTyped
  <2> QED BY <2>2, <2>3
<1>4. staff' \in [Staff -> StaffRows \cup {NoAccount}]
  BY <1>2, <1>3 DEF AccessInv, AccessTyped
<1>5. /\ web' = [web EXCEPT ![w] = Waiting] /\ grant' = grant /\ visit' = visit /\ office' = office
  BY DEF Finish
<1>6. ASSUME NEW v \in Visit, NEW p, visit[v] \in Visits, Could(v, p)'
      PROVE  Could(v, p)
  <2>1. PICK x : x = visit[v].of
    OBVIOUS
  <2>2. x \in Staff
    BY <1>6, <2>1 DEF Visits
  <2> QED BY <1>3, <1>5, <1>6, <2>1, <2>2 DEF Could, MayDo
<1>7. ASSUME NEW y \in Web
      PROVE  web'[y] \in Requests \cup {Waiting} /\ Just(web[y])'
  <2>1. CASE y = w
    BY <1>5, <2>1 DEF AccessInv, AccessTyped, Just, Waiting
  <2>2. CASE y # w
    <3>1. web'[y] = web[y] /\ Just(web[y]) /\ web[y] \in Requests \cup {Waiting}
      BY <1>5, <2>2 DEF AccessInv, AccessTyped
    <3>2. web[y].does # "nothing" => web[y].on \in Visit
      BY RequestIs DEF AccessInv
    <3> QED BY <1>5, <1>6, <3>1, <3>2 DEF Just
  <2> QED BY <2>1, <2>2
<1> QED BY <1>4, <1>5, <1>7 DEF AccessInv, AccessTyped

LEMMA ClaimAccountStep ==
    ASSUME AccessInv, NEW w \in Web, ClaimAccount(w)
    PROVE  AccessInv'
<1>1. PICK u : u = visit[web[w].on].of
  OBVIOUS
<1>2. /\ web[w].does = "arrives" /\ staff[u].there /\ staff' = [staff EXCEPT ![u].bound = TRUE]
      /\ Witness /\ visit' = visit /\ office' = office
  BY <1>1 DEF ClaimAccount
<1>3. visit[web[w].on] \in Visits
  BY <1>2 DEF AccessInv, Just
<1>4. u \in Staff
  BY <1>1, <1>3 DEF Visits
<1>5. PICK old : old = staff[u]
  OBVIOUS
<1>6. old \in StaffRows
  BY <1>2, <1>4, <1>5, AccountIs DEF AccessInv
<1>7. PICK new : new = [old EXCEPT !.bound = TRUE]
  OBVIOUS
<1>8. new \in StaffRows
  BY <1>6, <1>7 DEF StaffRows
<1>9. staff' = [staff EXCEPT ![u] = new]
  BY <1>2, <1>5, <1>7
<1> QED BY <1>2, <1>8, <1>9, AccountChanges

-----------------------------------------------------------------------------

LEMMA AccessStarts == AccessInit => AccessInv
BY DEF AccessInit, AccessInv, AccessTyped, Just, Waiting

LEMMA AccessSteps ==
    ASSUME AccessInv, [AccessNext]_access
    PROVE  AccessInv'
<1>1. CASE Administration
  <2>1. CASE \E q \in Desk :
               \/ SetRolePermissions(q) \/ DeleteRole(q) \/ SetUserRoles(q)
               \/ DeleteStaffAccount(q)
    BY <2>1, RoleReplaced, SetUserRolesStep, AccountDeleted
  <2>2. CASE \E q \in Desk : GiveUp(q) \/ \E u \in Staff : BeginDeleteStaff(q, u)
    <3>1. {} \in SUBSET Role
      OBVIOUS
    <3> QED BY <2>2, <3>1, AccountTakenUp
  <2>3. CASE \E q \in Desk, u \in Staff, rs \in SUBSET Role : BeginSetUserRoles(q, u, rs)
    BY <2>3, AccountTakenUp
  <2>4. CASE \E q \in Desk, r \in Role : BeginDeleteRole(q, r)
    BY <2>4, RoleTakenUp
  <2>5. CASE \E q \in Desk, r \in Role, ps \in SUBSET Permission : BeginSetRolePermissions(q, r, ps)
    BY <2>5, RoleTakenUp
  <2>6. CASE \E r \in Role, ps \in SUBSET Permission : CreateRole(r, ps) \/ ImportRoles(r, ps)
    BY <2>6, RoleWritten
  <2>7. CASE \E u \in Staff : \/ \E rs \in SUBSET Role : CreateStaffAccount(u, rs)
                              \/ \E on \in BOOLEAN : SetUserActive(u, on)
    BY <2>7, AccountCreated, AccountSwitched
  <2> QED BY <1>1, <2>1, <2>2, <2>3, <2>4, <2>5, <2>6, <2>7 DEF Administration
<1>2. CASE \E v \in Visit : SignOut(v) \/ \E u \in Staff : SignIn(v, u)
  BY <1>2, SignOutStep, SignInStep
<1>3. CASE \E w \in Web : \/ ClaimAccount(w) \/ Admit(w) \/ Deny(w) \/ Finish(w)
                          \/ \E v \in Visit, p \in Permission : Arrive(w, v, p)
  BY <1>3, ArriveStep, AdmitStep, DenyStep, FinishStep, ClaimAccountStep
<1>4. CASE UNCHANGED access
  BY <1>4 DEF access, AccessInv, AccessTyped, Just, Could, MayDo
<1> QED BY <1>1, <1>2, <1>3, <1>4 DEF AccessNext

\* No account, session or request is ever of a kind the code does not write.
THEOREM AccessIsTyped == AccessSpec => []AccessTyped
<1>1. AccessInv /\ [AccessNext]_access => AccessInv'
  BY AccessSteps
<1>2. AccessInv => AccessTyped
  BY DEF AccessInv
<1> QED BY AccessStarts, <1>1, <1>2, PTL DEF AccessSpec

\* Whatever is taken away - a role, a permission, the account, the session -
\* no request is admitted that could not have been at some moment since it
\* arrived: principal.ts asks the database again for each.
THEOREM NoneAfterRevocation == AccessSpec => []RevokedAtOnce
<1>1. AccessInv /\ [AccessNext]_access => AccessInv'
  BY AccessSteps
<1>2. AccessInv => RevokedAtOnce
  BY DEF AccessInv, Just, RevokedAtOnce
<1> QED BY AccessStarts, <1>1, <1>2, PTL DEF AccessSpec

-----------------------------------------------------------------------------
(* Configuration: what is cached, and what was answered                    *)

ConfigurationSpec == ConfigurationInit /\ [][ConfigurationNext]_configuration

Loads == [at : Instance, state : {"asked"}] \cup [at : Instance, state : {"read", "back"}, saw : Nat]

\* What a load has read, if it has, is no older than n.
SawAt(l, n) == load[l].state \in {"read", "back"} => load[l].saw >= n

EntryStands(i) ==
    entry[i] # NoEntry => entry[i] \in Load /\ load[entry[i]] # Unused /\ SawAt(entry[i], answered[i])
ReaderStands(r) ==
    reader[r] # Resting =>
        /\ reader[r].load \in Load /\ load[reader[r].load] # Unused
        /\ reader[r].since \in Nat /\ reader[r].since <= written
        /\ SawAt(reader[r].load, reader[r].since)
ClearsWhatIsWritten(q) ==
    admin[q].does = "clear" => admin[q].wrote \in Nat /\ admin[q].wrote <= written

\* Nothing is answered before it is written; an entry, and the load a reader
\* waits for, are no older than what was answered where they are.
CacheInv ==
    /\ written \in Nat
    /\ answered \in [Instance -> Nat] /\ \A i \in Instance : answered[i] <= written
    /\ DOMAIN admin = Admin /\ \A q \in Admin : ClearsWhatIsWritten(q)
    /\ load \in [Load -> Loads \cup {Unused}]
    /\ DOMAIN entry = Instance /\ \A i \in Instance : EntryStands(i)
    /\ DOMAIN reader = Reader /\ \A r \in Reader : ReaderStands(r)

-----------------------------------------------------------------------------

\* A step of the tables alone: what is cached was as fresh already.
LEMMA CachesStill ==
    ASSUME CacheInv, UNCHANGED caches, written' \in {written, written + 1}, DOMAIN admin' = Admin,
           \A q \in Admin : ClearsWhatIsWritten(q)'
    PROVE  CacheInv'
<1>1. /\ answered' = answered /\ entry' = entry /\ load' = load /\ reader' = reader
      /\ written' \in Nat /\ written <= written'
  BY DEF CacheInv, caches
<1>2. ASSUME NEW i \in Instance PROVE EntryStands(i)' /\ answered'[i] <= written'
  BY <1>1 DEF CacheInv, EntryStands, SawAt
<1>3. ASSUME NEW r \in Reader PROVE ReaderStands(r)'
  BY <1>1 DEF CacheInv, ReaderStands, SawAt
<1> QED BY <1>1, <1>2, <1>3 DEF CacheInv

\* A request that has read and not yet written.
LEMMA ARequestBegins ==
    ASSUME CacheInv, NEW q \in Admin, NEW request, request.does # "clear", Begins(q, request)
    PROVE  CacheInv'
<1>1. DOMAIN admin' = Admin /\ written' = written /\ UNCHANGED caches
  BY DEF Begins, CacheInv
<1>2. ASSUME NEW p \in Admin PROVE ClearsWhatIsWritten(p)'
  BY <1>1 DEF Begins, CacheInv, ClearsWhatIsWritten
<1> QED BY <1>1, <1>2, CachesStill

\* One that commits: it clears nothing but what is written now.
LEMMA ARequestCommits ==
    ASSUME CacheInv, NEW q \in Admin, NEW i, Commits(q, i)
    PROVE  CacheInv'
<1>1. DOMAIN admin' = Admin /\ written' = written + 1 /\ UNCHANGED caches /\ written \in Nat
  BY DEF Commits, CacheInv
<1>2. ASSUME NEW p \in Admin PROVE ClearsWhatIsWritten(p)'
  BY <1>1 DEF Commits, CacheInv, ClearsWhatIsWritten
<1> QED BY <1>1, <1>2, CachesStill

\* A step that writes no table and touches no cache.
LEMMA TheCacheIsAsItWas ==
    ASSUME CacheInv, UNCHANGED <<written, caches, admin>>
    PROVE  CacheInv'
<1>1. \A q \in Admin : ClearsWhatIsWritten(q)'
  BY DEF CacheInv, ClearsWhatIsWritten
<1> QED BY <1>1, CachesStill DEF CacheInv

-----------------------------------------------------------------------------

\* Clearing drops the entry before the instance answers: no reader of a later
\* read is given the load that was under way (cache.ts, clear).
LEMMA CacheCleared ==
    ASSUME CacheInv, NEW q \in Admin, ClearCache(q)
    PROVE  CacheInv'
<1> DEFINE at == admin[q].at  wrote == admin[q].wrote
<1>1. wrote \in Nat /\ wrote <= written /\ written' = written /\ load' = load /\ reader' = reader
  BY DEF ClearCache, CacheInv, ClearsWhatIsWritten
<1>2. /\ entry' = [entry EXCEPT ![at] = NoEntry]
      /\ answered' = [answered EXCEPT ![at] = IF wrote > @ THEN wrote ELSE @]
      /\ admin' = [admin EXCEPT ![q] = Resting]
  BY DEF ClearCache, CacheAfterClear
<1> HIDE DEF at, wrote
<1>3. answered' \in [Instance -> Nat] /\ \A i \in Instance : answered'[i] <= written'
  BY <1>1, <1>2 DEF CacheInv
<1>4. ASSUME NEW i \in Instance PROVE EntryStands(i)'
  <2>1. CASE i = at
    BY <2>1, <1>2 DEF CacheInv, EntryStands
  <2>2. CASE i # at
    <3>1. entry'[i] = entry[i] /\ answered'[i] = answered[i]
      BY <2>2, <1>2 DEF CacheInv
    <3> QED BY <3>1, <1>1 DEF CacheInv, EntryStands, SawAt
  <2> QED BY <2>1, <2>2
<1>5. ASSUME NEW r \in Reader PROVE ReaderStands(r)'
  BY <1>1 DEF CacheInv, ReaderStands, SawAt
<1>6. DOMAIN admin' = Admin /\ \A p \in Admin : ClearsWhatIsWritten(p)'
  BY <1>1, <1>2 DEF CacheInv, ClearsWhatIsWritten, Resting
<1> QED BY <1>1, <1>2, <1>3, <1>4, <1>5, <1>6 DEF CacheInv

\* A query just run sees what is committed: all any instance has answered.
LEMMA QueryAnswered ==
    ASSUME CacheInv, NEW l \in Load, Query(l)
    PROVE  CacheInv'
<1>1. /\ written' = written /\ answered' = answered /\ entry' = entry /\ reader' = reader /\ admin' = admin
      /\ load' = [load EXCEPT ![l] = [at |-> load[l].at, state |-> "read", saw |-> written]]
  BY DEF Query
<1>2. /\ load'[l].saw = written /\ load'[l] # Unused
      /\ \A m \in Load : m # l => load'[m] = load[m]
  BY <1>1 DEF CacheInv, Unused
<1>6. load' \in [Load -> Loads \cup {Unused}]
  <2>1. load[l] \in Loads
    BY DEF Query, CacheInv
  <2>2. load[l].at \in Instance /\ written \in Nat
    BY <2>1 DEF Loads, CacheInv
  <2> QED BY <1>1, <2>2 DEF CacheInv, Loads
<1>3. ASSUME NEW i \in Instance PROVE EntryStands(i)'
  BY <1>1, <1>2 DEF CacheInv, EntryStands, SawAt
<1>4. ASSUME NEW r \in Reader PROVE ReaderStands(r)'
  BY <1>1, <1>2 DEF CacheInv, ReaderStands, SawAt
<1>5. ASSUME NEW p \in Admin PROVE ClearsWhatIsWritten(p)'
  BY <1>1 DEF CacheInv, ClearsWhatIsWritten
<1> QED BY <1>1, <1>2, <1>3, <1>4, <1>5, <1>6 DEF CacheInv

\* What a load read does not change as it comes back.
LEMMA LoadResolves ==
    ASSUME CacheInv, NEW l \in Load, Resolve(l)
    PROVE  CacheInv'
<1>1. /\ written' = written /\ answered' = answered /\ entry' = entry /\ reader' = reader /\ admin' = admin
      /\ load' = [load EXCEPT ![l].state = "back"] /\ load[l].state = "read" /\ load[l] # Unused
  BY DEF Resolve
<1>2. PICK old : old = load[l]
  OBVIOUS
<1>3. load'[l] = [old EXCEPT !.state = "back"] /\ DOMAIN load' = Load /\ \A m \in Load : m # l => load'[m] = load[m]
  BY <1>1, <1>2 DEF CacheInv
<1>4. old \in [at : Instance, state : {"read", "back"}, saw : Nat]
  BY <1>1, <1>2 DEF CacheInv, Loads
<1>5. load'[l] \in Loads /\ load'[l] # Unused /\ load'[l].saw = load[l].saw /\ load[l].state = "read"
  BY <1>1, <1>2, <1>3, <1>4 DEF Loads, Unused
<1>6. load' \in [Load -> Loads \cup {Unused}]
  BY <1>1, <1>5 DEF CacheInv
<1>7. ASSUME NEW i \in Instance PROVE EntryStands(i)'
  BY <1>1, <1>3, <1>5 DEF CacheInv, EntryStands, SawAt
<1>8. ASSUME NEW r \in Reader PROVE ReaderStands(r)'
  BY <1>1, <1>3, <1>5 DEF CacheInv, ReaderStands, SawAt
<1>9. ASSUME NEW p \in Admin PROVE ClearsWhatIsWritten(p)'
  BY <1>1 DEF CacheInv, ClearsWhatIsWritten
<1> QED BY <1>1, <1>6, <1>7, <1>8, <1>9 DEF CacheInv

\* A load that fails leaves no entry and no reader behind it.
LEMMA LoadFails ==
    ASSUME CacheInv, NEW l \in Load, Fail(l)
    PROVE  CacheInv'
<1>1. /\ written' = written /\ answered' = answered /\ admin' = admin
      /\ entry' = [i \in Instance |-> IF entry[i] = l THEN NoEntry ELSE entry[i]]
      /\ reader' = [r \in Reader |-> IF reader[r] # Resting /\ reader[r].load = l THEN Resting ELSE reader[r]]
      /\ load' = [load EXCEPT ![l] = Unused]
  BY DEF Fail
<1>2. load' \in [Load -> Loads \cup {Unused}] /\ \A m \in Load : m # l => load'[m] = load[m]
  BY <1>1 DEF CacheInv
<1>3. ASSUME NEW i \in Instance PROVE EntryStands(i)'
  <2>1. entry'[i] = IF entry[i] = l THEN NoEntry ELSE entry[i]
    BY <1>1
  <2> QED BY <1>1, <1>2, <2>1 DEF CacheInv, EntryStands, SawAt
<1>4. ASSUME NEW r \in Reader PROVE ReaderStands(r)'
  <2>1. reader'[r] = IF reader[r] # Resting /\ reader[r].load = l THEN Resting ELSE reader[r]
    BY <1>1
  <2> QED BY <1>1, <1>2, <2>1 DEF CacheInv, ReaderStands, SawAt
<1>5. ASSUME NEW p \in Admin PROVE ClearsWhatIsWritten(p)'
  BY <1>1 DEF CacheInv, ClearsWhatIsWritten
<1> QED BY <1>1, <1>2, <1>3, <1>4, <1>5 DEF CacheInv

\* Entries, readers or requests go; loads and what was answered stay.
LEMMA SomeGo ==
    ASSUME CacheInv, UNCHANGED <<written, answered, load>>,
           DOMAIN entry' = Instance, \A i \in Instance : entry'[i] \in {entry[i], NoEntry},
           DOMAIN reader' = Reader, \A r \in Reader : reader'[r] \in {reader[r], Resting},
           DOMAIN admin' = Admin, \A q \in Admin : admin'[q] \in {admin[q], Resting}
    PROVE  CacheInv'
<1>1. ASSUME NEW i \in Instance PROVE EntryStands(i)'
  BY DEF CacheInv, EntryStands, SawAt
<1>2. ASSUME NEW r \in Reader PROVE ReaderStands(r)'
  BY DEF CacheInv, ReaderStands, SawAt
<1>3. ASSUME NEW q \in Admin PROVE ClearsWhatIsWritten(q)'
  BY DEF CacheInv, ClearsWhatIsWritten, Resting
<1> QED BY <1>1, <1>2, <1>3 DEF CacheInv

\* A read joins the entry there is, which is as new as all this instance has
\* answered, or starts a load that nothing refers to.
LEMMA ReadBegins ==
    ASSUME CacheInv, NEW r \in Reader, NEW i \in Instance, Read(r, i)
    PROVE  CacheInv'
<1>1. PICK l \in Load :
        /\ reader' = [reader EXCEPT ![r] = [does |-> "read", at |-> i, load |-> l, since |-> answered[i]]]
        /\ IF entry[i] # NoEntry
           THEN l = entry[i] /\ UNCHANGED <<load, entry>>
           ELSE /\ ~Referred(l)
                /\ load' = [load EXCEPT ![l] = [at |-> i, state |-> "asked"]]
                /\ entry' = [entry EXCEPT ![i] = l]
  BY DEF Read
<1>2. written' = written /\ answered' = answered /\ admin' = admin
  BY DEF Read
<1>3. /\ reader'[r].load = l /\ reader'[r].since = answered[i] /\ answered[i] \in Nat /\ answered[i] <= written
      /\ DOMAIN reader' = Reader /\ \A s \in Reader : s # r => reader'[s] = reader[s]
  BY <1>1 DEF CacheInv
<1>4. /\ load' \in [Load -> Loads \cup {Unused}] /\ load'[l] # Unused
      /\ SawAt(l, answered[i])'
  BY <1>1, <1>2 DEF CacheInv, EntryStands, SawAt, Loads, Unused
<1>5. \A m \in Load : m # l => load'[m] = load[m]
  BY <1>1 DEF CacheInv
<1>6. ASSUME NEW s \in Reader PROVE ReaderStands(s)'
  <2>1. CASE s = r
    BY <2>1, <1>2, <1>3, <1>4 DEF ReaderStands, SawAt
  <2>2. CASE s # r
    <3>1. reader[s] # Resting => reader[s].load # l \/ load' = load
      BY <1>1, <1>3, <2>2 DEF Referred
    <3> QED BY <2>2, <3>1, <1>2, <1>3, <1>5 DEF CacheInv, ReaderStands, SawAt
  <2> QED BY <2>1, <2>2
<1>7. ASSUME NEW j \in Instance PROVE EntryStands(j)'
  <2>1. CASE j = i
    BY <2>1, <1>1, <1>2, <1>4 DEF CacheInv, EntryStands, SawAt
  <2>2. CASE j # i
    <3>1. entry'[j] = entry[j] /\ (entry[j] # l \/ load' = load)
      BY <1>1, <2>2 DEF Referred, CacheInv
    <3> QED BY <3>1, <1>2, <1>5 DEF CacheInv, EntryStands, SawAt
  <2> QED BY <2>1, <2>2
<1>8. ASSUME NEW p \in Admin PROVE ClearsWhatIsWritten(p)'
  BY <1>2 DEF CacheInv, ClearsWhatIsWritten
<1>9. DOMAIN entry' = Instance
  BY <1>1 DEF CacheInv
<1> QED BY <1>2, <1>3, <1>4, <1>6, <1>7, <1>8, <1>9 DEF CacheInv

\* Every step of the cache.
LEMMA CacheReads ==
    ASSUME CacheInv, Reads
    PROVE  CacheInv'
<1>1. ASSUME NEW r \in Reader, Served(r) PROVE CacheInv'
  BY <1>1, SomeGo DEF Served, CacheInv
<1>2. ASSUME NEW i \in Instance, Age(i) PROVE CacheInv'
  BY <1>2, SomeGo DEF Age, CacheInv
<1>3. ASSUME NEW i \in Instance, InstanceStops(i) PROVE CacheInv'
  BY <1>3, SomeGo DEF InstanceStops, CacheInv
<1> QED BY <1>1, <1>2, <1>3, ReadBegins, QueryAnswered, LoadResolves, LoadFails DEF Reads

-----------------------------------------------------------------------------
(* What administrators do, to any table                                    *)

\* The first part of each change of the configuration: what it reads.
LEMMA ChangesBegun ==
    ASSUME CacheInv, NEW q \in Admin, NEW i \in Instance,
           \/ \E t \in Type : \/ BeginDeleteAccountType(q, i, t)
                             \/ \E on \in BOOLEAN : BeginUpdateAccountType(q, i, t, on) \/ BeginOpensOnApproval(q, i, t, on)
           \/ \E s \in Step, on \in BOOLEAN : BeginStepEnabled(q, i, s, on)
           \/ \E x \in Status, on \in BOOLEAN : BeginStatusActive(q, i, x, on)
           \/ \E r \in Rule : BeginDeleteRule(q, i, r) \/ \E other \in Rule : BeginMoveRule(q, i, r, other)
           \/ BeginPublishFees(q, i)
           \/ \E c \in Checklist : BeginDeleteChecklist(q, i, c)
           \/ \E holders \in SUBSET Membership : BeginAccountTypeEligibility(q, i, holders)
    PROVE  CacheInv'
<1>1. ASSUME NEW t \in Type, BeginDeleteAccountType(q, i, t) PROVE CacheInv'
  BY <1>1, ARequestBegins DEF BeginDeleteAccountType
<1>2. ASSUME NEW t \in Type, NEW on \in BOOLEAN, BeginUpdateAccountType(q, i, t, on) PROVE CacheInv'
  BY <1>2, ARequestBegins DEF BeginUpdateAccountType
<1>3. ASSUME NEW t \in Type, NEW on \in BOOLEAN, BeginOpensOnApproval(q, i, t, on) PROVE CacheInv'
  BY <1>3, ARequestBegins DEF BeginOpensOnApproval
<1>4. ASSUME NEW s \in Step, NEW on \in BOOLEAN, BeginStepEnabled(q, i, s, on) PROVE CacheInv'
  BY <1>4, ARequestBegins DEF BeginStepEnabled
<1>5. ASSUME NEW x \in Status, NEW on \in BOOLEAN, BeginStatusActive(q, i, x, on) PROVE CacheInv'
  BY <1>5, ARequestBegins DEF BeginStatusActive
<1>6. ASSUME NEW r \in Rule, BeginDeleteRule(q, i, r) PROVE CacheInv'
  BY <1>6, ARequestBegins DEF BeginDeleteRule
<1>7. ASSUME NEW r \in Rule, NEW other \in Rule, BeginMoveRule(q, i, r, other) PROVE CacheInv'
  <2>1. PICK order : Begins(q, [does |-> "move", at |-> i, order |-> order])
    BY <1>7 DEF BeginMoveRule
  <2> QED BY <2>1, ARequestBegins
<1>8. ASSUME BeginPublishFees(q, i) PROVE CacheInv'
  BY <1>8, ARequestBegins DEF BeginPublishFees
<1>9. ASSUME NEW c \in Checklist, BeginDeleteChecklist(q, i, c) PROVE CacheInv'
  BY <1>9, ARequestBegins DEF BeginDeleteChecklist
<1>10. ASSUME NEW holders \in SUBSET Membership, BeginAccountTypeEligibility(q, i, holders) PROVE CacheInv'
  BY <1>10, ARequestBegins DEF BeginAccountTypeEligibility
<1> QED BY <1>1, <1>2, <1>3, <1>4, <1>5, <1>6, <1>7, <1>8, <1>9, <1>10

\* A segregation rule is switched: there is no cache of them to clear.
LEMMA Segregated ==
    ASSUME CacheInv, NEW q \in Admin, NEW p, NEW state, SwitchesRule(q, p, state)
    PROVE  CacheInv'
<1>1. UNCHANGED <<caches, admin>> /\ written' = written + 1 /\ written \in Nat
  BY DEF SwitchesRule, CacheInv
<1>2. \A r \in Admin : ClearsWhatIsWritten(r)'
  BY <1>1 DEF CacheInv, ClearsWhatIsWritten
<1> QED BY <1>1, <1>2, CachesStill DEF CacheInv

\* The second part of each change, its refusal, and the clearing after it.
LEMMA AnsweredChanges ==
    ASSUME CacheInv, NEW q \in Admin, Answers(q)
    PROVE  CacheInv'
<1>1. CASE ClearCache(q)
  BY <1>1, CacheCleared
<1>2. CASE Refused(q)
  BY <1>2, SomeGo DEF Refused, CacheInv, caches
<1>3. CASE ~ClearCache(q) /\ ~Refused(q)
  <2>1. \E i : Commits(q, i)
    BY <1>3 DEF Answers, Does, CommitUpdateAccountType, CommitOpensOnApproval, CommitDeleteAccountType,
                CommitStepEnabled, CommitStatusActive, CommitMoveRule, CommitDeleteRule, CommitPublishFees,
                CommitDeleteChecklist, CommitAccountTypeEligibility
  <2> QED BY <2>1, ARequestCommits
<1> QED BY <1>1, <1>2, <1>3

\* Changes made in one step, imports among them.
LEMMA ChangesMade ==
    ASSUME CacheInv, NEW q \in Admin, NEW i \in Instance, Changes(q, i)
    PROVE  CacheInv'
<1>1. CASE \/ \E t \in Type : CreateAccountType(q, i, t)
           \/ \E r \in Rule : CreateApprovalRule(q, i, r)
           \/ \E c \in Checklist : \/ CreateChecklist(q, i, c) \/ SetMembershipTypeReferences(q, i, c)
                                  \/ AddChecklistItem(q, i, c) \/ RemoveChecklistItem(q, i, c)
           \/ \E b \in Bank, active \in BOOLEAN :
                \/ KeepMark(q, i, b, active)
                \/ \E mark \in BOOLEAN : CreateBankAccount(q, i, b, active, mark)
                                          \/ UpdateBankAccount(q, i, b, active, mark)
           \/ \E h, next \in Membership : SetMajorityTransition(q, i, h, next)
           \/ \E p \in Method : CreatePaymentMethod(q, i, p)
  <2>1. Commits(q, i)
    BY <1>1 DEF AtOnce, CreateAccountType, CreateApprovalRule, CreateChecklist, SetMembershipTypeReferences,
                AddChecklistItem, RemoveChecklistItem, KeepMark, CreateBankAccount, UpdateBankAccount,
                SetMajorityTransition, CreatePaymentMethod
  <2> QED BY <2>1, ARequestCommits
<1>2. CASE \/ ImportAccountTypes(q, i) \/ ImportWorkflow(q, i) \/ ImportFees(q, i) \/ ImportChecklists(q, i)
           \/ ImportChecklistItems(q, i) \/ ImportMembershipTypes(q, i) \/ ImportEligibility(q, i)
           \/ ImportPaymentMethods(q, i) \/ ImportBankAccounts(q, i) \/ ImportSegregation(q, i)
  <2>1. Commits(q, i)
    BY <1>2 DEF AtOnce, Sheet, ImportAccountTypes, ImportWorkflow, ImportFees, ImportChecklists,
                ImportChecklistItems, ImportMembershipTypes, ImportEligibility, ImportPaymentMethods,
                ImportBankAccounts, ImportSegregation
  <2> QED BY <2>1, ARequestCommits
<1>3. CASE \E p \in Pair : \/ AddSegregationRule(q, p)
                           \/ \E state \in {"on", "off"} : SetSegregationRuleEnabled(q, p, state)
  <2>1. \E p, state : SwitchesRule(q, p, state)
    BY <1>3 DEF AddSegregationRule, SetSegregationRuleEnabled
  <2> QED BY <2>1, Segregated
<1> QED BY <1>1, <1>2, <1>3, ChangesBegun DEF Changes

\* Rows written alone: settings, rules, items, methods.
LEMMA SettingsMade ==
    ASSUME CacheInv, NEW q \in Admin, NEW i \in Instance, Settings(q, i) \/ RowSettings(q, i)
    PROVE  CacheInv'
<1>1. CASE ImportSettings(q, i)
  BY <1>1, ARequestCommits DEF ImportSettings, Sheet, AtOnce
<1>2. CASE \E k \in Setting : Writing(q, i, k)
  <2>1. \E k : WritesRow(q, i, k)
    BY <1>2 DEF Writing, SetNomineeCount, SetFieldRule, SetStepRole, SetStepQuorum, SetCashSourceOfFundThreshold,
                SetCashSourceOfFundChecklist, SetCashMaximum, SetTakafulBenefit, SetNearFloorMargin,
                SetEnabledMemberOperations, SetSessionIdleMinutes, SetDormancyMonths, SetDormancyReactivation,
                SetResignationChecks, UpdateNotificationTemplate, UpdatePaymentMethod
  <2> QED BY <2>1, ARequestCommits DEF WritesRow, AtOnce
<1>3. CASE RowSettings(q, i)
  <2>1. \E k : WritesRow(q, i, k)
    BY <1>3 DEF RowSettings, UpdateApprovalRule, SetChecklistItemRequirement
  <2> QED BY <2>1, ARequestCommits DEF WritesRow, AtOnce
<1> QED BY <1>1, <1>2, <1>3 DEF Settings

\* The invariant is kept by every step.
LEMMA CacheStep ==
    ASSUME CacheInv, [ConfigurationNext]_configuration
    PROVE  CacheInv'
<1>1. CASE UNCHANGED configuration
  BY <1>1, TheCacheIsAsItWas DEF configuration
<1>2. CASE Others
  BY <1>2, TheCacheIsAsItWas DEF Others, UseType, RouteBy
<1> QED BY <1>1, <1>2, CacheReads, AnsweredChanges, ChangesMade, SettingsMade DEF ConfigurationNext

\* No instance has cached anything as the system starts.
LEMMA CacheBegins == ConfigurationInit => CacheInv
BY DEF ConfigurationInit, CacheInv, EntryStands, ReaderStands, ClearsWhatIsWritten, Resting

\* What an instance has cached, and what is on its way to a reader, is never
\* older than what that instance, or that reader's, had answered.
THEOREM CacheIsFresh == ConfigurationSpec => []CacheInv
BY CacheBegins, CacheStep, PTL DEF ConfigurationSpec

\* Whatever loads are under way when it is cleared, and for any number of
\* instances, requests and readers, an instance that answered a change serves
\* nobody the rows from before it.
THEOREM ReadsWhatItWrote == ConfigurationSpec => []ReadYourWrites
<1>1. CacheInv => ReadYourWrites
  BY DEF CacheInv, ReaderStands, SawAt, ReadYourWrites
<1> QED BY <1>1, CacheIsFresh, PTL

-----------------------------------------------------------------------------
(* Migration: what an import and its cancelling leave alone                *)

\* A row of a table, with the columns it has.
RecordStands(r) == r = Absent \/ DOMAIN r = {"by", "kind", "status"}
AccountStands(a) == a = Absent \/ DOMAIN a = {"by", "holds", "open"}
Stands(p) ==
    /\ RecordStands(record[p])
    /\ DOMAIN account[p] = Accounts /\ \A k \in Accounts : AccountStands(account[p][k])
    /\ ~OnFile(p) => \A k \in Accounts : ~Holds(p, k)

\* A history is planned for accounts that are held, as they were.
Planned(q) ==
    /\ "does" \in DOMAIN importing[q]
    /\ importing[q].does = "restore" =>
         \A a \in importing[q].plan.entries :
            a \in DOMAIN importing[q].plan.held /\ importing[q].plan.held[a] # Absent

RegisterStands == DOMAIN record = Person /\ DOMAIN account = Person /\ \A p \in Person : Stands(p)
RequestsPlanned == DOMAIN importing = Importer /\ \A q \in Importer : Planned(q)

\* Writing a column adds none.
LEMMA ColumnsStay ==
    ASSUME NEW f, NEW field, NEW value
    PROVE  DOMAIN [f EXCEPT ![field] = value] = DOMAIN f
OBVIOUS

\* An account that is closed, opened or used is still there.
LEMMA AClosedAccountStands ==
    ASSUME NEW a, NEW open, NEW holds, AccountStands(a), a # Absent
    PROVE  /\ AccountStands([a EXCEPT !.open = open]) /\ [a EXCEPT !.open = open] # Absent
           /\ AccountStands([a EXCEPT !.holds = holds]) /\ [a EXCEPT !.holds = holds] # Absent
           /\ AccountStands([a EXCEPT !.open = open, !.holds = holds]) /\ [a EXCEPT !.open = open, !.holds = holds] # Absent
<1>1. DOMAIN a = {"by", "holds", "open"} /\ DOMAIN Absent = {"by"}
  BY DEF AccountStands, Absent
<1>2. /\ DOMAIN [a EXCEPT !.open = open] = DOMAIN a /\ DOMAIN [a EXCEPT !.holds = holds] = DOMAIN a
      /\ DOMAIN [a EXCEPT !.open = open, !.holds = holds] = DOMAIN a
  BY ColumnsStay
<1> QED BY <1>1, <1>2 DEF AccountStands

\* An account just opened, or opened and closed, is there.
LEMMA AnOpenedAccountStands ==
    ASSUME NEW by, NEW holds, NEW open
    PROVE  /\ AccountStands(Opened(by, holds)) /\ Opened(by, holds) # Absent
           /\ AccountStands([Opened(by, holds) EXCEPT !.open = open]) /\ [Opened(by, holds) EXCEPT !.open = open] # Absent
<1>1. DOMAIN Opened(by, holds) = {"by", "holds", "open"} /\ DOMAIN Absent = {"by"}
  BY DEF Opened, Absent
<1>2. AccountStands(Opened(by, holds)) /\ Opened(by, holds) # Absent
  BY <1>1 DEF AccountStands
<1> QED BY <1>2, AClosedAccountStands

\* Closing the accounts of one who left takes none away.
LEMMA LeftStands ==
    ASSUME NEW accounts, NEW s, \A k \in Accounts : AccountStands(accounts[k])
    PROVE  /\ DOMAIN Left(accounts, s) = Accounts
           /\ \A k \in Accounts : AccountStands(Left(accounts, s)[k])
                                  /\ (accounts[k] # Absent => Left(accounts, s)[k] # Absent)
<1>1. ASSUME NEW k \in Accounts
      PROVE  Left(accounts, s)[k] = IF accounts[k] = Absent THEN Absent
                                     ELSE [accounts[k] EXCEPT !.open = accounts[k].open /\ ~Closes(s, k)]
  BY DEF Left
<1>2. ASSUME NEW k \in Accounts
      PROVE  AccountStands(Left(accounts, s)[k]) /\ (accounts[k] # Absent => Left(accounts, s)[k] # Absent)
  <2>1. CASE accounts[k] = Absent
    BY <1>1, <2>1 DEF AccountStands
  <2>2. CASE accounts[k] # Absent
    <3>1. PICK open : open = (accounts[k].open /\ ~Closes(s, k))
      OBVIOUS
    <3>2. Left(accounts, s)[k] = [accounts[k] EXCEPT !.open = open]
      BY <1>1, <2>2, <3>1
    <3>3. AccountStands([accounts[k] EXCEPT !.open = open]) /\ [accounts[k] EXCEPT !.open = open] # Absent
      BY <2>2, AClosedAccountStands
    <3> QED BY <3>2, <3>3
  <2> QED BY <2>1, <2>2
<1> QED BY <1>2 DEF Left

\* A record just written is there.
LEMMA ARecordStands ==
    ASSUME NEW by, NEW kind, NEW newly
    PROVE  RecordStands([by |-> by, kind |-> kind, status |-> newly])
           /\ [by |-> by, kind |-> kind, status |-> newly] # Absent
BY DEF RecordStands, Absent

\* Changing a record's status does not remove it.
LEMMA ARecordStaysOne ==
    ASSUME NEW r, NEW newly, RecordStands(r), r # Absent
    PROVE  RecordStands([r EXCEPT !.status = newly]) /\ [r EXCEPT !.status = newly] # Absent
<1>1. DOMAIN r = {"by", "kind", "status"} /\ DOMAIN Absent = {"by"}
  BY DEF RecordStands, Absent
<1>2. DOMAIN [r EXCEPT !.status = newly] = DOMAIN r
  BY ColumnsStay
<1> QED BY <1>1, <1>2 DEF RecordStands

-----------------------------------------------------------------------------
\* What is on file first: records of a branch, with accounts of their own.
LEMMA RegisterStarts == MigrationInit => RegisterStands /\ RequestsPlanned
<1> SUFFICES ASSUME MigrationInit PROVE RegisterStands /\ RequestsPlanned
  OBVIOUS
<1>1. PICK f \in OnFileFirst : record = [p \in Person |-> IF p \in DOMAIN f THEN f[p] ELSE Absent]
  BY DEF MigrationInit
<1>2. ASSUME NEW p \in Person PROVE Stands(p)
  <2>1. RecordStands(record[p])
    <3>1. ASSUME p \in DOMAIN f PROVE DOMAIN f[p] = {"by", "kind", "status"}
      BY <3>1, BranchAssumption
    <3> QED BY <1>1, <3>1 DEF RecordStands
  <2>2. account[p] = [k \in Accounts |->
          IF k = "membership" /\ OnFile(p) /\ record[p].kind = "member"
          THEN [Opened(Branch, "nothing") EXCEPT !.open = record[p].status = "active"] ELSE Absent]
    BY DEF MigrationInit
  <2>3. ASSUME NEW k \in Accounts
        PROVE  AccountStands(account[p][k]) /\ (~OnFile(p) => ~Holds(p, k))
    <3>1. account[p][k] = IF k = "membership" /\ OnFile(p) /\ record[p].kind = "member"
             THEN [Opened(Branch, "nothing") EXCEPT !.open = record[p].status = "active"] ELSE Absent
      BY <2>2
    <3> QED BY <3>1, AnOpenedAccountStands DEF Holds, AccountStands
  <2> QED BY <2>1, <2>2, <2>3 DEF Stands
<1>3. DOMAIN record = Person /\ DOMAIN account = Person
  BY <1>1 DEF MigrationInit
<1>4. RequestsPlanned
  BY DEF MigrationInit, RequestsPlanned, Planned, NotImporting
<1> QED BY <1>2, <1>3, <1>4 DEF RegisterStands

\* A step that writes neither records nor accounts.
LEMMA RegisterUntouched ==
    ASSUME RegisterStands, UNCHANGED <<record, account>>
    PROVE  RegisterStands' /\ \A p \in Person : Keeps(p)
BY DEF RegisterStands, Stands, OnFile, Holds, Keeps

\* A step that writes one person's.
LEMMA OthersUntouched ==
    ASSUME RegisterStands, NEW p, DOMAIN record' = Person, DOMAIN account' = Person,
           \A r \in Person : r # p => record'[r] = record[r] /\ account'[r] = account[r],
           p \in Person => Stands(p)' /\ Keeps(p)
    PROVE  RegisterStands' /\ \A r \in Person : Keeps(r)
<1>1. ASSUME NEW r \in Person, r # p PROVE Stands(r)' /\ Keeps(r)
  BY <1>1 DEF RegisterStands, Stands, OnFile, Holds, Keeps
<1> QED BY <1>1 DEF RegisterStands

\* A request that goes on to something that is not a planned history.
LEMMA RequestReplaced ==
    ASSUME RequestsPlanned, NEW q \in Importer, NEW request, Import(q, request),
           "does" \in DOMAIN request, request.does # "restore"
    PROVE  RequestsPlanned'
BY DEF RequestsPlanned, Planned, Import

-----------------------------------------------------------------------------
(* A row's database transaction                                            *)

\* Accounts a row writes to: those of its person, or with one more.
AccountsStand(p, accounts) ==
    /\ DOMAIN accounts = Accounts
    /\ \A k \in Accounts : AccountStands(accounts[k]) /\ (Holds(p, k) => accounts[k] # Absent)

\* The row's transaction puts a record on file, and takes no account away.
LEMMA ARowIsWritten ==
    ASSUME RegisterStands, NEW q \in Importer, NEW kind, NEW by, NEW newly, NEW accounts,
           Writes(q, kind, by, newly, accounts),
           importing[q].person \in Person => AccountsStand(importing[q].person, accounts)
    PROVE  RegisterStands' /\ \A p \in Person : Keeps(p)
<1>1. PICK p : p = importing[q].person
  OBVIOUS
<1>2. PICK b : b = importing[q].batch
  OBVIOUS
<1>3. PICK r : r = RowAt(q)
  OBVIOUS
<1>4. PICK opened : opened = IF r.opens = "none" THEN accounts
                             ELSE [accounts EXCEPT !["savings"] = OpensAccount(r, b)]
  OBVIOUS
<1>5. PICK stands : stands = StandsAs(r.says, newly, Left(opened, r.says))
  OBVIOUS
<1>6. /\ account' = [account EXCEPT ![p] = Left(opened, r.says)]
      /\ record' = [record EXCEPT ![p] = [by |-> by, kind |-> kind, status |-> stands]]
  BY <1>1, <1>2, <1>3, <1>4, <1>5 DEF Writes
<1>7. ASSUME p \in Person PROVE Stands(p)' /\ Keeps(p)
  <2>1. ASSUME NEW k \in Accounts
        PROVE  AccountStands(opened[k]) /\ (Holds(p, k) => opened[k] # Absent)
    <3>1. AccountStands(OpensAccount(r, b)) /\ OpensAccount(r, b) # Absent
      <4>1. PICK open : open = (r.opens = "open")
        OBVIOUS
      <4>2. PICK holds : holds = Carried(r.says, "savings")
        OBVIOUS
      <4>3. OpensAccount(r, b) = [Opened(b, holds) EXCEPT !.open = open]
        BY <4>1, <4>2 DEF OpensAccount
      <4> QED BY <4>3, AnOpenedAccountStands
    <3>2. opened[k] \in {accounts[k], OpensAccount(r, b)}
      BY <1>4, <1>7, <1>1 DEF AccountsStand
    <3> QED BY <3>1, <3>2, <1>7, <1>1 DEF AccountsStand
  <2>2. /\ account'[p] = Left(opened, r.says)
        /\ record'[p] = [by |-> by, kind |-> kind, status |-> stands]
    BY <1>6, <1>7 DEF RegisterStands
  <2>3. RecordStands(record'[p]) /\ record'[p] # Absent
    BY <2>2, ARecordStands
  <2>4. DOMAIN account'[p] = Accounts
        /\ \A k \in Accounts : AccountStands(account'[p][k]) /\ (Holds(p, k) => account'[p][k] # Absent)
    BY <2>1, <2>2, LeftStands
  <2> QED BY <2>3, <2>4 DEF Stands, Keeps, OnFile, Holds
<1> QED BY <1>6, <1>7, OthersUntouched DEF RegisterStands

\* ... of a record it was checked against,
LEMMA AKnownRowIsWritten ==
    ASSUME RegisterStands, NEW q \in Importer, NEW kind, Updates(q, kind)
    PROVE  RegisterStands' /\ \A p \in Person : Keeps(p)
<1>1. PICK p : p = importing[q].person
  OBVIOUS
<1>2. Writes(q, kind, record[p].by, record[p].status, account[p])
  BY <1>1 DEF Updates
<1>3. p \in Person => AccountsStand(p, account[p])
  BY DEF RegisterStands, Stands, AccountsStand, Holds
<1> QED BY <1>1, <1>2, <1>3, ARowIsWritten

\* ... or of a new one, with a membership's accounts.
LEMMA ANewRowIsWritten ==
    ASSUME RegisterStands, NEW q \in Importer, CreateMember(q) \/ CreateCustomer(q)
    PROVE  RegisterStands' /\ \A p \in Person : Keeps(p)
<1>1. PICK p : p = importing[q].person
  OBVIOUS
<1>2. CASE CreateMember(q)
  <2>1. PICK b, holds : Writes(q, "member", b, "active", [account[p] EXCEPT !["membership"] = Opened(b, holds)])
    BY <1>1, <1>2 DEF CreateMember
  <2>2. PICK accounts : accounts = [account[p] EXCEPT !["membership"] = Opened(b, holds)]
    OBVIOUS
  <2>3. ASSUME p \in Person PROVE AccountsStand(p, accounts)
    <3>1. AccountStands(Opened(b, holds)) /\ Opened(b, holds) # Absent
      BY AnOpenedAccountStands
    <3>2. DOMAIN account[p] = Accounts /\ \A k \in Accounts : AccountStands(account[p][k])
      BY <2>3 DEF RegisterStands, Stands
    <3>3. DOMAIN accounts = Accounts
          /\ \A k \in Accounts : accounts[k] = IF k = "membership" THEN Opened(b, holds) ELSE account[p][k]
      BY <2>2, <3>2
    <3> QED BY <3>1, <3>2, <3>3 DEF AccountsStand, Holds
  <2> QED BY <1>1, <2>1, <2>2, <2>3, ARowIsWritten
<1>3. CASE CreateCustomer(q)
  <2>1. PICK b : Writes(q, "customer", b, "active", account[p])
    BY <1>1, <1>3 DEF CreateCustomer
  <2>2. p \in Person => AccountsStand(p, account[p])
    BY DEF RegisterStands, Stands, AccountsStand, Holds
  <2> QED BY <1>1, <2>1, <2>2, ARowIsWritten
<1> QED BY <1>2, <1>3

-----------------------------------------------------------------------------
(* Cancelling, balances, history                                           *)

\* Cancelling: no account it removes was used, no record it removes was of a
\* branch, and with a record go all its accounts.
LEMMA ABatchIsCancelled ==
    ASSUME RegisterStands, NEW b \in Batch, CancelBatch(b)
    PROVE  RegisterStands' /\ \A p \in Person : Keeps(p)
<1>1. /\ record' = [p \in Person |-> IF p \in ItsRecords(b) THEN Absent ELSE record[p]]
      /\ account' = [p \in Person |-> [k \in Accounts |->
                        IF <<p, k>> \in ItsAccounts(b) THEN Absent ELSE account[p][k]]]
      /\ \A a \in ItsAccounts(b) : account[a[1]][a[2]].holds # "own"
  BY DEF CancelBatch, MoneyMoved
<1>2. ASSUME NEW p \in Person PROVE Stands(p)' /\ Keeps(p)
  <2>1. /\ record'[p] = IF p \in ItsRecords(b) THEN Absent ELSE record[p]
        /\ DOMAIN account'[p] = Accounts
        /\ \A k \in Accounts : account'[p][k] = IF <<p, k>> \in ItsAccounts(b) THEN Absent ELSE account[p][k]
    BY <1>1
  <2>2. \A k \in Accounts : <<p, k>> \in ItsAccounts(b) => account[p][k].holds # "own"
    BY <1>1
  <2>3. p \in ItsRecords(b) => \A k \in Accounts : Holds(p, k) => <<p, k>> \in ItsAccounts(b)
    BY DEF ItsAccounts
  <2>4. p \in ItsRecords(b) => record[p].by # Branch
    BY BranchAssumption DEF ItsRecords, IsStill
  <2>5. Stands(p)
    BY DEF RegisterStands
  <2>6. Keeps(p)
    BY <2>1, <2>2, <2>3, <2>4, <2>5 DEF Keeps, Stands, OnFile, Holds
  <2>7. Stands(p)'
    BY <2>1, <2>5, <2>6 DEF Stands, Keeps, RecordStands, AccountStands
  <2> QED BY <2>6, <2>7
<1> QED BY <1>1, <1>2 DEF RegisterStands

\* A step that changes what accounts hold, and neither opens nor removes one.
LEMMA AccountsRewritten ==
    ASSUME RegisterStands, record' = record, DOMAIN account' = Person,
           \A p \in Person : /\ DOMAIN account'[p] = Accounts
                             /\ \A k \in Accounts : /\ AccountStands(account'[p][k])
                                                    /\ Holds(p, k)' <=> Holds(p, k)
    PROVE  RegisterStands' /\ \A p \in Person : Keeps(p)
BY DEF RegisterStands, Stands, Keeps, OnFile

\* Only accounts that are there are set, looked at again under their locks.
LEMMA BalancesAreSet ==
    ASSUME RegisterStands, NEW q \in Importer, CommitBalances(q)
    PROVE  RegisterStands' /\ \A p \in Person : Keeps(p)
<1>1. record' = record
  BY DEF CommitBalances
<1>2. CASE account' = account
  BY <1>1, <1>2, RegisterUntouched
<1>3. CASE account' # account
  <2> DEFINE named == importing[q].accounts
  <2>4. /\ \A a \in named : Settable(a[1], a[2])
        /\ \E some \in SUBSET named : account' = [p \in Person |-> [k \in Accounts |->
                                IF <<p, k>> \in named
                                THEN [account[p][k] EXCEPT !.holds = IF <<p, k>> \in some THEN "opening" ELSE "nothing"]
                                ELSE account[p][k]]]
    <3>1. ~(\A a \in named : Settable(a[1], a[2])) => account' = account
      BY DEF CommitBalances
    <3>2. \A a \in named : Settable(a[1], a[2])
      BY <3>1, <1>3
    <3> QED BY <3>2 DEF CommitBalances
  <2>1. PICK some : account' = [p \in Person |-> [k \in Accounts |->
                                IF <<p, k>> \in named
                                THEN [account[p][k] EXCEPT !.holds = IF <<p, k>> \in some THEN "opening" ELSE "nothing"]
                                ELSE account[p][k]]]
    BY <2>4
  <2>2. ASSUME NEW p \in Person, NEW k \in Accounts
        PROVE  AccountStands(account'[p][k]) /\ (Holds(p, k)' <=> Holds(p, k))
    <3>1. AccountStands(account[p][k])
      BY DEF RegisterStands, Stands
    <3>2. CASE <<p, k>> \notin named
      BY <2>1, <3>1, <3>2 DEF Holds
    <3>3. CASE <<p, k>> \in named
      <4>1. account[p][k] # Absent
        BY <2>4, <3>3 DEF Settable, Holds
      <4>2. PICK holds : account'[p][k] = [account[p][k] EXCEPT !.holds = holds]
        BY <2>1, <3>3
      <4>3. AccountStands([account[p][k] EXCEPT !.holds = holds]) /\ [account[p][k] EXCEPT !.holds = holds] # Absent
        BY <3>1, <4>1, AClosedAccountStands
      <4> QED BY <4>1, <4>2, <4>3 DEF Holds
    <3> QED BY <3>2, <3>3
  <2>3. DOMAIN account' = Person /\ \A p \in Person : DOMAIN account'[p] = Accounts
    BY <2>1
  <2> QED BY <1>1, <2>2, <2>3, AccountsRewritten
<1> QED BY <1>2, <1>3

\* A plan speaks of accounts that are held as it is made.
LEMMA AHistoryIsPlanned ==
    ASSUME RequestsPlanned, NEW q \in Importer, BeginRestore(q)
    PROVE  RequestsPlanned'
<1>1. PICK more \in SUBSET HoldingMoney, none \in SUBSET HoldingNone :
        importing' = [importing EXCEPT ![q] = [does |-> "restore", plan |-> Plan(more, none)]]
  BY DEF BeginRestore, Import
<1>2. PICK plan : plan = Plan(more, none)
  OBVIOUS
<1>3. plan.entries = more \cup none /\ plan.held = [a \in HoldingMoney \cup none |-> account[a[1]][a[2]]]
  BY <1>2 DEF Plan
<1>4. ASSUME NEW a \in plan.entries PROVE a \in DOMAIN plan.held /\ plan.held[a] # Absent
  BY <1>3 DEF HoldingMoney, HoldingNone, Holds
<1>5. Planned(q)'
  <2>1. importing'[q] = [does |-> "restore", plan |-> plan]
    BY <1>1, <1>2 DEF RequestsPlanned
  <2> QED BY <2>1, <1>4 DEF Planned
<1>6. ASSUME NEW o \in Importer, o # q PROVE Planned(o)'
  BY <1>1, <1>6 DEF RequestsPlanned, Planned
<1>7. DOMAIN importing' = Importer
  BY <1>1 DEF RequestsPlanned
<1> QED BY <1>5, <1>6, <1>7 DEF RequestsPlanned

\* ... and is carried out only if they are still as they were.
LEMMA AHistoryIsRestored ==
    ASSUME RegisterStands, RequestsPlanned, NEW q \in Importer, CommitRestore(q)
    PROVE  RegisterStands' /\ \A p \in Person : Keeps(p)
<1>1. record' = record
  BY DEF CommitRestore
<1>2. CASE account' = account
  BY <1>1, <1>2, RegisterUntouched
<1>3. CASE account' # account
  <2>1. PICK plan : plan = importing[q].plan
    OBVIOUS
  <2>2. /\ \A a \in DOMAIN plan.held : account[a[1]][a[2]] = plan.held[a]
        /\ account' = [p \in Person |-> [k \in Accounts |->
             IF <<p, k>> \in plan.entries THEN [account[p][k] EXCEPT !.holds = "own"] ELSE account[p][k]]]
        /\ \A a \in plan.entries : a \in DOMAIN plan.held /\ plan.held[a] # Absent
    BY <1>3, <2>1 DEF CommitRestore, RequestsPlanned, Planned
  <2>3. ASSUME NEW p \in Person, NEW k \in Accounts
        PROVE  AccountStands(account'[p][k]) /\ (Holds(p, k)' <=> Holds(p, k))
    <3>1. AccountStands(account[p][k])
      BY DEF RegisterStands, Stands
    <3>2. CASE <<p, k>> \notin plan.entries
      BY <2>2, <3>1, <3>2 DEF Holds
    <3>3. CASE <<p, k>> \in plan.entries
      <4>1. account[p][k] # Absent
        BY <2>2, <3>3
      <4>2. account'[p][k] = [account[p][k] EXCEPT !.holds = "own"]
        BY <2>2, <3>3
      <4>3. AccountStands([account[p][k] EXCEPT !.holds = "own"]) /\ [account[p][k] EXCEPT !.holds = "own"] # Absent
        BY <3>1, <4>1, AClosedAccountStands
      <4> QED BY <4>1, <4>2, <4>3 DEF Holds
    <3> QED BY <3>2, <3>3
  <2>4. DOMAIN account' = Person /\ \A p \in Person : DOMAIN account'[p] = Accounts
    BY <2>2
  <2> QED BY <1>1, <2>3, <2>4, AccountsRewritten
<1> QED BY <1>2, <1>3

-----------------------------------------------------------------------------
(* The business that goes on meanwhile                                     *)

\* A branch opens, closes and uses accounts of those on file.
LEMMA BusinessGoesOn ==
    ASSUME RegisterStands, NEW p \in Person, OpenAtBranch(p) \/ Resign(p) \/ \E k \in Accounts : Trade(p, k)
    PROVE  RegisterStands' /\ \A r \in Person : Keeps(r)
<1> DEFINE Same(r) == record'[r] = record[r] /\ account'[r] = account[r]
<1>1. CASE OpenAtBranch(p)
  <2>1. PICK new : /\ account' = [account EXCEPT ![p]["savings"] = new]
                   /\ new = IF Holds(p, "savings") THEN OpenedAgain(account[p]["savings"]) ELSE Opened(Branch, "receipt")
    BY <1>1 DEF OpenAtBranch
  <2>2. PICK newly : record' = [record EXCEPT ![p] = [record[p] EXCEPT !.status = newly]]
    BY <1>1 DEF OpenAtBranch
  <2>3. Stands(p) /\ record[p] # Absent
    BY <1>1 DEF RegisterStands, OpenAtBranch, OnFile
  <2>4. AccountStands(new) /\ new # Absent
    <3>1. CASE ~Holds(p, "savings")
      BY <2>1, <3>1, AnOpenedAccountStands
    <3>2. CASE Holds(p, "savings")
      <4>1. PICK holds : new = [account[p]["savings"] EXCEPT !.open = TRUE, !.holds = holds]
        BY <2>1, <3>2 DEF OpenedAgain
      <4>2. AccountStands(account[p]["savings"]) /\ account[p]["savings"] # Absent
        BY <2>3, <3>2 DEF Stands, Holds, Accounts
      <4> QED BY <4>1, <4>2, AClosedAccountStands
    <3> QED BY <3>1, <3>2
  <2>5. record'[p] = [record[p] EXCEPT !.status = newly] /\ DOMAIN record' = Person
    BY <2>2 DEF RegisterStands
  <2>6. RecordStands(record'[p]) /\ record'[p] # Absent
    BY <2>3, <2>5, ARecordStaysOne DEF Stands
  <2>7. DOMAIN account'[p] = Accounts /\ DOMAIN account' = Person
        /\ \A k \in Accounts : account'[p][k] = IF k = "savings" THEN new ELSE account[p][k]
    BY <2>1, <2>3 DEF RegisterStands, Stands
  <2>8. Stands(p)' /\ Keeps(p)
    BY <2>3, <2>4, <2>6, <2>7 DEF Stands, Keeps, OnFile, Holds
  <2>9. \A r \in Person : r # p => Same(r)
    BY <2>1, <2>2 DEF RegisterStands
  <2> QED BY <2>5, <2>7, <2>8, <2>9, OthersUntouched
<1>2. CASE Resign(p)
  <2>1. account' = [account EXCEPT ![p]["membership"].open = FALSE, ![p]["membership"].holds = "own"]
        /\ record' = [record EXCEPT ![p] = [record[p] EXCEPT !.status = "resigned"]]
    BY <1>2 DEF Resign
  <2>3. Stands(p) /\ record[p] # Absent
    BY <1>2 DEF RegisterStands, Resign, OnFile
  <2>4. PICK new : new = [account[p]["membership"] EXCEPT !.open = FALSE, !.holds = "own"]
    OBVIOUS
  <2>5. AccountStands(new) /\ (Holds(p, "membership") => new # Absent)
    <3>1. AccountStands(account[p]["membership"])
      BY <2>3 DEF Stands, Accounts
    <3>2. CASE Holds(p, "membership")
      BY <2>4, <3>1, <3>2, AClosedAccountStands DEF Holds
    <3>3. CASE ~Holds(p, "membership")
      BY <2>4, <3>3 DEF Holds, Absent, AccountStands
    <3> QED BY <3>2, <3>3
  <2>6. record'[p] = [record[p] EXCEPT !.status = "resigned"] /\ DOMAIN record' = Person
    BY <2>1 DEF RegisterStands
  <2>7. RecordStands(record'[p]) /\ record'[p] # Absent
    BY <2>3, <2>6, ARecordStaysOne DEF Stands
  <2>8. DOMAIN account'[p] = Accounts /\ DOMAIN account' = Person
        /\ \A k \in Accounts : account'[p][k] = IF k = "membership" THEN new ELSE account[p][k]
    BY <2>1, <2>3, <2>4 DEF RegisterStands, Stands
  <2>9. Stands(p)' /\ Keeps(p)
    BY <2>3, <2>5, <2>7, <2>8 DEF Stands, Keeps, OnFile, Holds
  <2>10. \A r \in Person : r # p => Same(r)
    BY <2>1 DEF RegisterStands
  <2> QED BY <2>6, <2>8, <2>9, <2>10, OthersUntouched
<1>3. ASSUME NEW k \in Accounts, Trade(p, k) PROVE RegisterStands' /\ \A r \in Person : Keeps(r)
  <2>1. /\ account' = [account EXCEPT ![p][k] = [account[p][k] EXCEPT !.holds = "own"]]
        /\ record' = record /\ account[p][k] # Absent
    BY <1>3 DEF Trade, Holds
  <2>2. Stands(p)
    BY DEF RegisterStands
  <2>3. AccountStands([account[p][k] EXCEPT !.holds = "own"]) /\ [account[p][k] EXCEPT !.holds = "own"] # Absent
    BY <2>1, <2>2, AClosedAccountStands DEF Stands
  <2>4. DOMAIN account'[p] = Accounts /\ DOMAIN account' = Person
        /\ \A l \in Accounts : account'[p][l] = IF l = k THEN [account[p][k] EXCEPT !.holds = "own"] ELSE account[p][l]
    BY <2>1, <2>2 DEF RegisterStands, Stands
  <2>5. Stands(p)' /\ Keeps(p)
    BY <2>1, <2>2, <2>3, <2>4 DEF Stands, Keeps, OnFile, Holds
  <2>6. \A r \in Person : r # p => Same(r)
    BY <2>1 DEF RegisterStands
  <2>7. DOMAIN record' = Person
    BY <2>1 DEF RegisterStands
  <2> QED BY <2>4, <2>5, <2>6, <2>7, OthersUntouched
<1> QED BY <1>1, <1>2, <1>3

-----------------------------------------------------------------------------
(* Requests under way                                                      *)

\* Every step but the planning of a history leaves it to the requests that
\* have one planned.
LEMMA RequestMovesOn ==
    ASSUME RequestsPlanned, NEW q \in Importer, NEW does, does # "restore", Becomes(q, does)
    PROVE  RequestsPlanned'
<1>1. importing' = [importing EXCEPT ![q] = [importing[q] EXCEPT !.does = does]]
  BY DEF Becomes, Import
<1>2. DOMAIN [importing[q] EXCEPT !.does = does] = DOMAIN importing[q]
  BY ColumnsStay
<1>3. "does" \in DOMAIN importing[q]
  BY DEF RequestsPlanned, Planned
<1>4. [importing[q] EXCEPT !.does = does].does = does
  BY <1>3
<1> QED BY <1>1, <1>2, <1>3, <1>4, RequestReplaced DEF Import

\* A step of nobody's request.
LEMMA RequestsStay ==
    ASSUME RequestsPlanned, importing' = importing
    PROVE  RequestsPlanned'
BY DEF RequestsPlanned, Planned

\* Every step keeps the plans of histories under way.
LEMMA RequestsMove ==
    ASSUME RequestsPlanned, [MigrationNext]_migration
    PROVE  RequestsPlanned'
<1>1. ASSUME NEW q \in Importer, NEW b \in Batch, BeginUpload(q, b) PROVE RequestsPlanned'
  BY <1>1, RequestReplaced DEF BeginUpload
<1>2. ASSUME NEW q \in Importer, NEW b \in Batch, BeginChunk(q, b) PROVE RequestsPlanned'
  BY <1>2, RequestReplaced DEF BeginChunk
<1>3. ASSUME NEW q \in Importer, NEW p \in Person, BeginRow(q, p) PROVE RequestsPlanned'
  <2>1. PICK b : b = importing[q].batch
    OBVIOUS
  <2>2. PICK missing : missing = (row[b][p].says.guardian # Nobody /\ ~GuardianOnFile(row[b][p].says.guardian))
    OBVIOUS
  <2>3. PICK does : does = IF missing THEN "refused" ELSE IF row[b][p].known = "nobody" THEN "new" ELSE "row"
    OBVIOUS
  <2>4. PICK rows : rows = importing[q].rows \ {p}
    OBVIOUS
  <2>5. Import(q, [does |-> does, batch |-> b, rows |-> rows, person |-> p, inserted |-> FALSE])
    BY <1>3, <2>1, <2>2, <2>3, <2>4 DEF BeginRow
  <2>6. does # "restore"
    BY <2>3
  <2> QED BY <2>5, <2>6, RequestReplaced
<1>4. ASSUME NEW q \in Importer,
             CommitUpload(q) \/ FinishChunk(q) \/ ChunkDies(q) \/ CommitBalances(q) \/ CommitRestore(q)
      PROVE  RequestsPlanned'
  <2>1. Import(q, NotImporting)
    BY <1>4 DEF CommitUpload, FinishChunk, ChunkDies, CommitBalances, CommitRestore
  <2> QED BY <2>1, RequestReplaced DEF NotImporting
<1>5. ASSUME NEW q \in Importer, Sweep(q) PROVE RequestsPlanned'
  BY <1>5, RequestMovesOn DEF Sweep, Becomes
<1>6. ASSUME NEW q \in Importer, Claim(q) \/ RecordRow(q) PROVE RequestsPlanned'
  <2>1. PICK b, rows : Import(q, [does |-> "rows", batch |-> b, rows |-> rows])
    BY <1>6 DEF Claim, RecordRow
  <2> QED BY <2>1, RequestReplaced
<1>7. ASSUME NEW q \in Importer, InsertMembership(q) \/ InsertCustomerAccount(q) PROVE RequestsPlanned'
  <2>1. Import(q, [importing[q] EXCEPT !.does = "row", !.inserted = TRUE])
    BY <1>7 DEF InsertMembership, InsertCustomerAccount, InsertsApplication
  <2>2. "does" \in DOMAIN importing[q]
    BY DEF RequestsPlanned, Planned
  <2>3. [importing[q] EXCEPT !.does = "row", !.inserted = TRUE].does = "row"
        /\ "does" \in DOMAIN [importing[q] EXCEPT !.does = "row", !.inserted = TRUE]
    BY <2>2
  <2> QED BY <2>1, <2>3, RequestReplaced
<1>8. ASSUME NEW q \in Importer, AllocateForRow(q) PROVE RequestsPlanned'
  BY <1>8, RequestsStay DEF AllocateForRow
<1>9. ASSUME NEW q \in Importer, UpdateMember(q) \/ UpdateCustomer(q) \/ CreateMember(q) \/ CreateCustomer(q) \/ RefuseRow(q)
      PROVE  RequestsPlanned'
  <2>1. Becomes(q, "written") \/ Becomes(q, "refused")
    BY <1>9 DEF UpdateMember, UpdateCustomer, Updates, CreateMember, CreateCustomer, Writes, RefuseRow
  <2> QED BY <2>1, RequestMovesOn
<1>10. ASSUME NEW q \in Importer, BeginBalances(q) PROVE RequestsPlanned'
  <2>1. PICK named : Import(q, [does |-> "balances", accounts |-> named])
    BY <1>10 DEF BeginBalances
  <2> QED BY <2>1, RequestReplaced
<1>11. ASSUME NEW b \in Batch, CancelBatch(b) PROVE RequestsPlanned'
  BY <1>11, RequestsStay DEF CancelBatch
<1>12. ASSUME NEW p \in Person, OpenAtBranch(p) \/ Resign(p) \/ \E k \in Accounts : Trade(p, k) PROVE RequestsPlanned'
  BY <1>12, RequestsStay DEF OpenAtBranch, Resign, Trade
<1>13. CASE UNCHANGED migration
  BY <1>13, RequestsStay DEF migration
<1> QED BY <1>1, <1>2, <1>3, <1>4, <1>5, <1>6, <1>7, <1>8, <1>9, <1>10, <1>11, <1>12, <1>13, AHistoryIsPlanned
        DEF MigrationNext

\* Every step keeps the register, and what others use.
LEMMA RegisterMoves ==
    ASSUME RegisterStands, RequestsPlanned, [MigrationNext]_migration
    PROVE  RegisterStands' /\ \A p \in Person : Keeps(p)
<1>1. CASE UNCHANGED <<record, account>>
  BY <1>1, RegisterUntouched
<1>2. ASSUME NEW q \in Importer, UpdateMember(q) \/ UpdateCustomer(q), ~UNCHANGED <<record, account>>
      PROVE  RegisterStands' /\ \A p \in Person : Keeps(p)
  BY <1>2, AKnownRowIsWritten DEF UpdateMember, UpdateCustomer
<1>3. CASE ~UNCHANGED <<record, account>>
  <2>1. ~UNCHANGED migration
    BY <1>3 DEF migration
  <2>2. ~\E q \in Importer, b \in Batch : BeginUpload(q, b) \/ BeginChunk(q, b)
    BY <1>3 DEF BeginUpload, BeginChunk
  <2>3. ~\E q \in Importer, p \in Person : BeginRow(q, p)
    BY <1>3 DEF BeginRow
  <2>4. ~\E q \in Importer :
          \/ CommitUpload(q) \/ Sweep(q) \/ Claim(q)
          \/ InsertMembership(q) \/ InsertCustomerAccount(q) \/ AllocateForRow(q)
          \/ RefuseRow(q) \/ RecordRow(q) \/ FinishChunk(q) \/ ChunkDies(q)
          \/ BeginBalances(q) \/ BeginRestore(q)
    BY <1>3 DEF CommitUpload, Sweep, Claim, InsertMembership, InsertCustomerAccount, InsertsApplication,
                AllocateForRow, RefuseRow, RecordRow, FinishChunk, ChunkDies, BeginBalances, BeginRestore
  <2> QED BY <1>2, <1>3, <2>1, <2>2, <2>3, <2>4, ANewRowIsWritten, ABatchIsCancelled, BalancesAreSet,
             AHistoryIsRestored, BusinessGoesOn DEF MigrationNext
<1> QED BY <1>1, <1>3

\* However imports, balances and history run, die, are swept and cancelled,
\* and whatever happens at the branch meanwhile, no used account and no
\* record that was there before is removed, and no account is without holder.
THEOREM OthersAreKept == MigrationSpec => OthersKept
<1>1. RegisterStands /\ RequestsPlanned /\ [MigrationNext]_migration
      => RegisterStands' /\ RequestsPlanned' /\ [\A p \in Person : Keeps(p)]_migration
  BY RegisterMoves, RequestsMove
<1> QED BY RegisterStarts, <1>1, PTL DEF MigrationSpec, OthersKept

-----------------------------------------------------------------------------
(* Members: what applying a request leaves alone                           *)

\* A record has every field; a request that waits was sent by one holder.
DetailsStand ==
    /\ DOMAIN details = Holder /\ \A h \in Holder : DOMAIN details[h] = Field
    /\ DOMAIN asked = Holder

\* Applying a request leaves what it did not change as it stands now.
Survive(h) ==
    Applied(h) => \A f \in Field : asked[h].parties[f] = asked[h].previous[f] => details'[h][f] = details[h][f]

\* Nothing is filled in, and nothing asked, as the system starts.
LEMMA DetailsStart == MembersInit => DetailsStand
BY DEF MembersInit, DetailsStand

\* A step that writes neither.
LEMMA DetailsUntouched ==
    ASSUME DetailsStand, UNCHANGED <<details, asked>>
    PROVE  DetailsStand' /\ \A h \in Holder : Survive(h)
<1>1. ASSUME NEW h PROVE ~Applied(h)
  BY DEF Applied
<1> QED BY <1>1 DEF DetailsStand, Survive

\* A request sent, or declined, is not one applied.
LEMMA RequestSent ==
    ASSUME DetailsStand, details' = details, NEW h, NEW request,
           asked' = [asked EXCEPT ![h] = request], request.status # "applied"
    PROVE  DetailsStand' /\ \A g \in Holder : Survive(g)
<1>1. ASSUME NEW g \in Holder PROVE ~Applied(g)
  <2>1. CASE g = h
    BY <2>1 DEF Applied, DetailsStand
  <2>2. CASE g # h
    BY <2>2 DEF Applied, DetailsStand
  <2> QED BY <2>1, <2>2
<1> QED BY <1>1 DEF DetailsStand, Survive

\* Applying writes the fields that were changed, and those alone.
LEMMA RequestApplied ==
    ASSUME DetailsStand, NEW h \in Holder, ApplyDetailsRequest(h)
    PROVE  DetailsStand' /\ \A g \in Holder : Survive(g)
<1>1. /\ details' = [details EXCEPT ![h] = [f \in Field |->
            IF f \in ChangesIn(asked[h], details[h]) THEN asked[h].parties[f] ELSE details[h][f]]]
      /\ asked' = [asked EXCEPT ![h] = [status |-> "applied"]]
  BY DEF ApplyDetailsRequest
<1>2. DetailsStand'
  BY <1>1 DEF DetailsStand
<1>3. ASSUME NEW f \in Field, asked[h].parties[f] = asked[h].previous[f] PROVE details'[h][f] = details[h][f]
  BY <1>1, <1>3 DEF DetailsStand, ChangesIn, DiffersFrom
<1>4. ASSUME NEW g \in Holder, g # h PROVE ~Applied(g)
  BY <1>1, <1>4 DEF DetailsStand, Applied
<1> QED BY <1>2, <1>3, <1>4 DEF Survive

\* A correction at a branch leaves requests alone.
LEMMA CorrectedAtBranch ==
    ASSUME DetailsStand, NEW h \in Holder, NEW f \in Field, NEW v, NEW all, UpdateContactDetails(h, f, v, all)
    PROVE  DetailsStand' /\ \A g \in Holder : Survive(g)
<1>1. details' = [details EXCEPT ![h][f] = v] /\ asked' = asked
  BY DEF UpdateContactDetails
<1>2. ASSUME NEW g PROVE ~Applied(g)
  BY <1>1 DEF Applied
<1> QED BY <1>1, <1>2 DEF DetailsStand, Survive

\* Every step keeps the record whole, and what a branch corrected.
LEMMA DetailsMove ==
    ASSUME DetailsStand, [MembersNext]_people
    PROVE  DetailsStand' /\ \A h \in Holder : Survive(h)
<1>1. CASE UNCHANGED <<details, asked>>
  BY <1>1, DetailsUntouched
<1>2. ASSUME NEW h \in Holder, DeclineDetailsRequest(h) PROVE DetailsStand' /\ \A g \in Holder : Survive(g)
  <2>1. PICK request : request = [status |-> "declined"]
    OBVIOUS
  <2>2. asked' = [asked EXCEPT ![h] = request] /\ details' = details
    BY <1>2, <2>1 DEF DeclineDetailsRequest
  <2>3. request.status # "applied"
    BY <2>1
  <2> QED BY <2>2, <2>3, RequestSent
<1>3. ASSUME NEW q \in Counter, CommitSubmitDetails(q), asked' # asked
      PROVE  DetailsStand' /\ \A g \in Holder : Survive(g)
  <2>1. PICK h : h = counter[q].holder
    OBVIOUS
  <2>2. PICK request :
          request = [status |-> "pending", parties |-> counter[q].parties, previous |-> counter[q].previous]
    OBVIOUS
  <2>3. asked' = [asked EXCEPT ![h] = request] /\ details' = details
    BY <1>3, <2>1, <2>2 DEF CommitSubmitDetails
  <2>4. request.status # "applied"
    BY <2>2
  <2> QED BY <2>3, <2>4, RequestSent
<1>4. CASE ~UNCHANGED <<details, asked>>
  <2>1. ~UNCHANGED people
    BY <1>4 DEF people
  <2>2. ~GuardianNext /\ ~\E q \in Counter : ServerDies(q)
    BY <1>4 DEF GuardianNext, ApproveGuardianChange, RejectGuardianChange, CancelGuardianChange, BeginGuardianChange,
                CommitGuardianChange, BeginDormancy, CommitDormancy, GrowQuiet, Stir, ReactivateMember, Leaves,
                ComesOfAge, ServerDies
  <2>3. ~\E h \in Holder : OpenForm(h) \/ \E f \in Field, v \in Value : TypeIn(h, f, v)
    BY <1>4 DEF OpenForm, TypeIn
  <2>4. ~\E q \in Counter : ReadPrevious(q) \/ \E h \in Holder : BeginSubmitDetails(q, h)
    BY <1>4 DEF ReadPrevious, BeginSubmitDetails
  <2>5. \A q \in Counter : CommitSubmitDetails(q) => asked' # asked
    BY <1>4 DEF CommitSubmitDetails
  <2> QED BY <1>2, <1>3, <2>1, <2>2, <2>3, <2>4, <2>5, RequestApplied, CorrectedAtBranch DEF MembersNext, DetailsNext
<1> QED BY <1>1, <1>4

\* For any number of holders, fields, forms and requests under way, what a
\* branch has corrected since a request was sent is left as it is by applying
\* the request, unless the request changed that field.
THEOREM CorrectionsAreKept == MembersSpec => CorrectionsSurvive
<1>1. DetailsStand /\ [MembersNext]_people
      => DetailsStand' /\ [\A h \in Holder : Survive(h)]_people
  BY DetailsMove
<1> QED BY DetailsStart, <1>1, PTL DEF MembersSpec, CorrectionsSurvive, Survive
=============================================================================
