------------------------------- MODULE Access -------------------------------
(***************************************************************************)
(* Who may do what (lib/admin/roles, lib/access, lib/auth, middleware):    *)
(* staff accounts, the roles they hold, what each role grants, sessions    *)
(* and the requests made on them. Nothing of it is cached: each request    *)
(* asks the database again.                                                *)
(*                                                                         *)
(* Replacing what a person holds or a role grants is a deletion and an     *)
(* insertion in one transaction: it deletes the rows committed when it     *)
(* looked, so two that overlap leave what both insert.                     *)
(***************************************************************************)
EXTENDS FiniteSets

CONSTANTS
    Staff,       \* people, by email address
    Role,
    SystemRole,  \* those that cannot be deleted
    Permission,
    Visit,       \* sessions
    Desk,        \* requests of administrators under way
    Web          \* other requests under way

ASSUME SystemAssumption == SystemRole \subseteq Role

VARIABLES
    staff,  \* app_user, with user_role
    grant,    \* role, with role_permission
    visit,    \* sessions: whose, and whether their end is on the audit trail
    web,      \* requests under way
    office    \* those of administrators

access == <<staff, grant, visit, web, office>>

NoAccount == [there |-> FALSE]
NoRole == [there |-> FALSE]
NoVisit == [signedIn |-> FALSE]
Waiting == [does |-> "nothing"]

NewAccount(roles) ==
    [there |-> TRUE, active |-> TRUE, bound |-> FALSE, used |-> FALSE, roles |-> roles]

AccessInit ==
    /\ staff = [u \in Staff |-> NoAccount]
    /\ grant = [r \in Role |-> IF r \in SystemRole THEN [there |-> TRUE, permissions |-> Permission]
                                                    ELSE NoRole]
    /\ visit = [v \in Visit |-> NoVisit]
    /\ web = [w \in Web |-> Waiting]
    /\ office = [q \in Desk |-> Waiting]

-----------------------------------------------------------------------------
(* Requests                                                                *)

\* An active account with a role that grants it.
MayDo(u, p) ==
    /\ staff[u].there /\ staff[u].active
    /\ \E r \in staff[u].roles : grant[r].there /\ p \in grant[r].permissions

\* Mutant of Admits: a session is good for as long as its cookie.
AdmitsOnCookie(v, p) == staff[visit[v].of].there /\ staff[visit[v].of].bound /\ MayDo(visit[v].of, p)

\* resolvePrincipal, then authorise: the account bound to the person, what
\* it holds, and the session's end, read together.
Admits(v, p) ==
    LET u == visit[v].of IN
    staff[u].there /\ staff[u].bound /\ ~visit[v].ended /\ MayDo(u, p)

\* History: whether the request could have been admitted at some moment
\* since it arrived.
Could(v, p) == ~visit[v].ended /\ MayDo(visit[v].of, p)
Witness ==
    web' = [w \in Web |-> IF web[w].does = "arrives"
                          THEN [web[w] EXCEPT !.could =
                                   @ \/ \E v \in {web[w].on}, p \in {web[w].needs} : Could(v, p)']
                          ELSE web[w]]

\* Entra vouches for the person; the cookie carries the session's own id.
SignIn(v, u) ==
    /\ visit[v] = NoVisit
    /\ visit' = [visit EXCEPT ![v] = [signedIn |-> TRUE, of |-> u, ended |-> FALSE]]
    /\ UNCHANGED <<staff, grant, web, office>>

\* Signed out, or left idle: recorded under the session's id. A record that
\* cannot be written is logged and the sign-out goes on.
SignOut(v) ==
    /\ visit[v].signedIn
    /\ visit' = [visit EXCEPT ![v].ended = TRUE]
    /\ UNCHANGED <<staff, grant, office>> /\ Witness

Arrive(w, v, p) ==
    /\ web[w] = Waiting /\ visit[v].signedIn
    /\ web' = [web EXCEPT ![w] = [does |-> "arrives", on |-> v, needs |-> p, could |-> Could(v, p)]]
    /\ UNCHANGED <<staff, grant, visit, office>>

\* The first request of a person an account waits for binds it to them.
ClaimAccount(w) ==
    /\ web[w].does = "arrives"
    /\ LET u == visit[web[w].on].of IN
       /\ staff[u].there /\ ~staff[u].bound /\ staff[u].active
       /\ staff' = [staff EXCEPT ![u].bound = TRUE]
    /\ UNCHANGED <<grant, visit, office>> /\ Witness

Admit(w) ==
    /\ web[w].does = "arrives"
    /\ Admits(web[w].on, web[w].needs)
    /\ web' = [web EXCEPT ![w].does = "acts"]
    /\ UNCHANGED <<staff, grant, visit, office>>

Deny(w) ==
    /\ web[w].does = "arrives"
    /\ ~Admits(web[w].on, web[w].needs)
    /\ web' = [web EXCEPT ![w] = Waiting]
    /\ UNCHANGED <<staff, grant, visit, office>>

\* What it did names the account from then on.
Finish(w) ==
    /\ web[w].does = "acts"
    /\ web' = [web EXCEPT ![w] = Waiting]
    /\ staff' = [staff EXCEPT ![visit[web[w].on].of] = IF @.there THEN [@ EXCEPT !.used = TRUE] ELSE @]
    /\ UNCHANGED <<grant, visit, office>>

-----------------------------------------------------------------------------
(* Administrators                                                          *)

Starts(q, request) ==
    /\ office[q] = Waiting
    /\ office' = [office EXCEPT ![q] = request]
    /\ UNCHANGED <<staff, grant, visit, web>>

Ends(q, what) ==
    /\ office[q].does = what
    /\ office' = [office EXCEPT ![q] = Waiting]
    /\ UNCHANGED visit

\* Refused: its row has gone, or a reference holds it.
GiveUp(q) ==
    /\ office[q] # Waiting
    /\ office' = [office EXCEPT ![q] = Waiting]
    /\ UNCHANGED <<staff, grant, visit, web>>

CreateRole(r, permissions) ==
    /\ ~grant[r].there
    /\ grant' = [grant EXCEPT ![r] = [there |-> TRUE, permissions |-> permissions]]
    /\ UNCHANGED <<staff, visit, office>> /\ Witness

\* What the deletion sees goes; what the insertion adds is there after.
BeginSetRolePermissions(q, r, permissions) ==
    /\ grant[r].there
    /\ Starts(q, [does |-> "grant", role |-> r, removes |-> grant[r].permissions, adds |-> permissions])

SetRolePermissions(q) ==
    /\ Ends(q, "grant")
    /\ grant[office[q].role].there
    /\ grant' = [grant EXCEPT ![office[q].role].permissions = (@ \ office[q].removes) \cup office[q].adds]
    /\ UNCHANGED staff /\ Witness

\* The Roles sheet of a workbook, where it names other permissions than the
\* role has.
ImportRoles(r, permissions) ==
    /\ grant[r] # [there |-> TRUE, permissions |-> permissions]
    /\ grant' = [grant EXCEPT ![r] = [there |-> TRUE, permissions |-> permissions]]
    /\ UNCHANGED <<staff, visit, office>> /\ Witness

HeldBy(r) == {u \in Staff : staff[u].there /\ r \in staff[u].roles}

BeginDeleteRole(q, r) ==
    /\ grant[r].there /\ r \notin SystemRole /\ HeldBy(r) = {}
    /\ Starts(q, [does |-> "delete role", role |-> r])

DeleteRole(q) ==
    /\ Ends(q, "delete role")
    /\ grant[office[q].role].there /\ HeldBy(office[q].role) = {}
    /\ grant' = [grant EXCEPT ![office[q].role] = NoRole]
    /\ UNCHANGED staff /\ Witness

CreateStaffAccount(u, roles) ==
    /\ ~staff[u].there
    /\ \A r \in roles : grant[r].there
    /\ staff' = [staff EXCEPT ![u] = NewAccount(roles)]
    /\ UNCHANGED <<grant, visit, office>> /\ Witness

BeginSetUserRoles(q, u, roles) ==
    /\ staff[u].there
    /\ \A r \in roles : grant[r].there
    /\ Starts(q, [does |-> "roles", user |-> u, removes |-> staff[u].roles, adds |-> roles])

\* A role deleted since is not there to insert.
SetUserRoles(q) ==
    /\ Ends(q, "roles")
    /\ staff[office[q].user].there
    /\ staff' = [staff EXCEPT ![office[q].user].roles =
                      (@ \ office[q].removes) \cup {r \in office[q].adds : grant[r].there}]
    /\ UNCHANGED grant /\ Witness

\* Nothing the account did refers to it...
BeginDeleteStaff(q, u) ==
    /\ staff[u].there /\ ~staff[u].used
    /\ Starts(q, [does |-> "delete", user |-> u])

\* ... still.
DeleteStaffAccount(q) ==
    /\ Ends(q, "delete")
    /\ staff[office[q].user].there /\ ~staff[office[q].user].used
    /\ staff' = [staff EXCEPT ![office[q].user] = NoAccount]
    /\ UNCHANGED grant /\ Witness

SetUserActive(u, active) ==
    /\ staff[u].there /\ staff[u].active # active
    /\ staff' = [staff EXCEPT ![u].active = active]
    /\ UNCHANGED <<grant, visit, office>> /\ Witness

-----------------------------------------------------------------------------

Administration ==
    \/ \E q \in Desk :
         \/ SetRolePermissions(q) \/ DeleteRole(q) \/ SetUserRoles(q) \/ DeleteStaffAccount(q) \/ GiveUp(q)
         \/ \E r \in Role : BeginDeleteRole(q, r)
                             \/ \E ps \in SUBSET Permission : BeginSetRolePermissions(q, r, ps)
         \/ \E u \in Staff : BeginDeleteStaff(q, u)
                              \/ \E rs \in SUBSET Role : BeginSetUserRoles(q, u, rs)
    \/ \E r \in Role, ps \in SUBSET Permission : CreateRole(r, ps) \/ ImportRoles(r, ps)
    \/ \E u \in Staff : \/ \E rs \in SUBSET Role : CreateStaffAccount(u, rs)
                        \/ \E on \in BOOLEAN : SetUserActive(u, on)

AccessNext ==
    \/ Administration
    \/ \E v \in Visit : SignOut(v) \/ \E u \in Staff : SignIn(v, u)
    \/ \E w \in Web : ClaimAccount(w) \/ Admit(w) \/ Deny(w) \/ Finish(w)
                       \/ \E v \in Visit, p \in Permission : Arrive(w, v, p)

-----------------------------------------------------------------------------

\* A role or permission taken away, an account deactivated or a session ended
\* counts from the next request on: none is admitted that could not have been
\* at some moment after it arrived (principal.ts, roles.ts).
RevokedAtOnce == \A w \in Web : web[w].does = "acts" => web[w].could
=============================================================================
