------------------------------ MODULE AccessPage ------------------------------
(***************************************************************************)
(* AccessPage (frontend/src/pages/access.tsx) over the routes below        *)
(* /access of backend/app/api/auth_routes.py: who may do what where.  One  *)
(* account has the page open; meanwhile the others assign and remove roles *)
(* from theirs, register estates and remove them (api/routes.py).          *)
(*                                                                         *)
(* A request loads the profile of its account and acts on it later, when   *)
(* roles may have been removed.                                            *)
(*                                                                         *)
(* The accounts are those that the page creates, all in the group "users", *)
(* and so may all register estates.  Roles that give no say over access    *)
(* are one: environment-user; "user" and "auditor" of the hub are left     *)
(* out, and so are the assignments of the groups "admins" and "auditors",  *)
(* which cannot be removed, and identity providers.                        *)
(***************************************************************************)
EXTENDS Integers

CONSTANTS
  Call,         \* calls that may be outstanding at one time
  Env,          \* estates, registered or not; an id is never used again
  User,         \* people who have accounts, or may be given one
  Root,         \* the built-in administrator, a member of the group "admins"
  Delegate,     \* who has registered the estate Home
  Home,
  MaxChanges    \* bound on the changes of estates and assignments

VARIABLES
  hub,      \* local_users, managed_environments and role_assignments
  screen,   \* the account of the page, and what it shows
  calls     \* calls[c]: a run of a handler

accessVars == <<hub, screen, calls>>

Hub == "hub"
Users == "users"            \* the group of every account
Place == Env \cup {Hub}

Roles(e) == IF e = Hub THEN {"admin"} ELSE {"environment-admin", "environment-user"}

Assignment ==
  {a \in [role : {"admin", "environment-admin", "environment-user"}, place : Place,
          principal : User \cup {Users}] : a.role \in Roles(a.place)}

\* What no table records: which account gave a, and when.
Grant == [at : 0 .. MaxChanges, by : User, kind : {"registered", "assigned"}, row : Assignment]

OwnEstate(u, e) == [role |-> "environment-admin", place |-> e, principal |-> u]

\* may: where the profile of the call lets it change assignments; rows: the
\* assignment of the request and, later, those of its answer.
NoCall == [kind |-> "none", step |-> "asked", may |-> {}, rows |-> {}, estates |-> {}]

AccessTypeOK ==
  /\ hub \in [users : SUBSET User, estates : [Env -> {"new", "registered", "removed"}],
              assigned : SUBSET Assignment, grants : SUBSET Grant, changes : 0 .. MaxChanges]
  /\ screen \in [user : User, admin : BOOLEAN, shown : SUBSET Assignment, estates : SUBSET Env]
  /\ calls \in [Call -> [kind : {"none", "reload", "assign", "remove", "user"},
                         step : {"asked", "allowed", "load", "answered", "failed"},
                         may : SUBSET Place, rows : SUBSET Assignment, estates : SUBSET Env]]

\* What a gives u, itself or as one of the users.
GivesSay(a, u, place) ==
  /\ a.principal \in {u, Users}
  /\ \/ a.role = "admin"
     \/ a.role = "environment-admin" /\ a.place = place

\* load_profile: the administrator's own group, and what u is assigned.
Administers(u, place) == u = Root \/ \E a \in hub.assigned : GivesSay(a, u, place)

MayAdminister(u) == {place \in Place : Administers(u, place)}

\* The estates that list_environments has for u.
Visible(u) ==
  {e \in Env : /\ hub.estates[e] = "registered"
               /\ Administers(u, Hub) \/ \E a \in hub.assigned :
                                           a.place = e /\ a.principal \in {u, Users}}

\* One estate has been registered, and a page has just been opened.
AccessInit ==
  /\ \E accounts \in SUBSET User :
       /\ {Root, Delegate} \subseteq accounts
       /\ hub = [users |-> accounts,
                 estates |-> [e \in Env |-> IF e = Home THEN "registered" ELSE "new"],
                 assigned |-> {OwnEstate(Delegate, Home)},
                 grants |-> {[at |-> 0, by |-> Delegate, kind |-> "registered",
                              row |-> OwnEstate(Delegate, Home)]},
                 changes |-> 0]
  /\ \E u \in hub.users :
       screen = [user |-> u, admin |-> u = Root, shown |-> {}, estates |-> {}]
  /\ \E v \in Call : calls = [c \in Call |-> IF c = v THEN [NoCall EXCEPT !.kind = "reload"]
                                             ELSE NoCall]

----------------------------------------------------------------------------
(* The routes, of an account u whose profile lets it administer may. *)

Given(u, kind, a) ==
  /\ hub.changes < MaxChanges
  /\ hub' = [hub EXCEPT
       !.assigned = @ \cup {a},
       !.grants   = @ \cup {[at |-> hub.changes + 1, by |-> u, kind |-> kind, row |-> a]},
       !.estates  = IF kind = "registered" THEN [@ EXCEPT ![a.place] = "registered"] ELSE @,
       !.changes  = @ + 1]

\* Mutant: whoever administers some estate may delegate any.
CreateAssignmentAnywhere(u, may, a) ==
  /\ may # {} /\ (a.place = Hub => Hub \in may)
  /\ a \notin hub.assigned
  /\ Given(u, "assigned", a)

\* create_assignment; the unique key refuses a second row, and nothing refuses an
\* estate that has been removed meanwhile.
CreateAssignment(u, may, a) ==
  /\ a.place \in may
  /\ a \notin hub.assigned
  /\ Given(u, "assigned", a)

Gone(assigned, estates) ==
  /\ hub.changes < MaxChanges
  /\ hub' = [hub EXCEPT !.assigned = assigned, !.estates = estates, !.changes = @ + 1]

\* delete_assignment.
DeleteAssignment(may, a) ==
  /\ a \in hub.assigned /\ a.place \in may
  /\ Gone(hub.assigned \ {a}, hub.estates)

\* create_user.
CreateUser(may) ==
  /\ Hub \in may
  /\ \E new \in User \ hub.users : hub' = [hub EXCEPT !.users = @ \cup {new}]

\* create_environment: the group "users" may, and its creator administers it.
CreateEnvironment(u, e) ==
  /\ hub.estates[e] = "new"
  /\ Given(u, "registered", OwnEstate(u, e))

\* delete_environment, with the assignments of the estate.
DeleteEnvironment(may, e) ==
  /\ hub.estates[e] = "registered" /\ e \in may
  /\ Gone({a \in hub.assigned : a.place # e}, [hub.estates EXCEPT ![e] = "removed"])

\* What the forms can name: accounts stay, estates may have been removed.
Known(a) ==
  /\ a.principal \in hub.users \cup {Users}
  /\ a.place \in Env => hub.estates[a.place] # "new"

\* Another account, at another page.
Elsewhere(u) ==
  /\ u \in hub.users
  /\ \/ \E a \in Assignment : \/ Known(a) /\ CreateAssignment(u, MayAdminister(u), a)
                              \/ DeleteAssignment(MayAdminister(u), a)
     \/ CreateUser(MayAdminister(u))
     \/ \E e \in Env : CreateEnvironment(u, e) \/ DeleteEnvironment(MayAdminister(u), e)
  /\ UNCHANGED <<screen, calls>>

----------------------------------------------------------------------------
(* The page. *)

Begin(c, kind, rows) ==
  /\ calls[c].kind = "none"
  /\ calls' = [calls EXCEPT ![c] = [NoCall EXCEPT !.kind = kind, !.rows = rows]]
  /\ UNCHANGED <<hub, screen>>

\* assignRole: the form has the estates of the last load, and this hub for an
\* administrator only.
AssignRole(c, a) ==
  /\ a.place \in screen.estates \cup {Hub}
  /\ a.place = Hub => screen.admin
  /\ Known(a)
  /\ Begin(c, "assign", {a})

\* Remove, in a row of the table; it is there for every row.
Remove(c, a) ==
  /\ a \in screen.shown
  /\ Begin(c, "remove", {a})

\* createUser: its form is rendered for an administrator.
SubmitUser(c) == screen.admin /\ Begin(c, "user", {})

\* resolve_user: the request loads the profile that it is decided by.
Authorize(c) ==
  /\ calls[c].kind \notin {"none", "reload"} /\ calls[c].step = "asked"
  /\ calls' = [calls EXCEPT ![c].step = "allowed", ![c].may = MayAdminister(screen.user)]
  /\ UNCHANGED <<hub, screen>>

\* The route of a call commits.
Serve(c) ==
  LET call == calls[c] IN
  /\ call.step = "allowed"
  /\ \/ call.kind = "assign" /\ \E a \in call.rows : CreateAssignment(screen.user, call.may, a)
     \/ call.kind = "remove" /\ \E a \in call.rows : DeleteAssignment(call.may, a)
     \/ call.kind = "user" /\ CreateUser(call.may)
  /\ calls' = [calls EXCEPT ![c] = [NoCall EXCEPT !.kind = call.kind, !.step = "load"]]
  /\ UNCHANGED screen

Refuse(c) ==
  /\ calls[c].kind # "none" /\ calls[c].step \in {"asked", "allowed"}
  /\ calls' = [calls EXCEPT ![c] = [NoCall EXCEPT !.kind = calls[c].kind, !.step = "failed"]]
  /\ UNCHANGED <<hub, screen>>

\* reload: access_directory, for an administrator of anything, and the estates.
Directory(c) ==
  /\ calls[c].step = IF calls[c].kind = "reload" THEN "asked" ELSE "load"
  /\ calls[c].kind # "none"
  /\ \/ /\ MayAdminister(screen.user) # {}
        /\ calls' = [calls EXCEPT ![c].step = "answered", ![c].rows = hub.assigned,
                                  ![c].estates = Visible(screen.user)]
     \/ calls' = [calls EXCEPT ![c].step = "failed"]
  /\ UNCHANGED <<hub, screen>>

Lands(c) ==
  LET call == calls[c] IN
  /\ call.step \in {"answered", "failed"}
  /\ screen' = IF call.step = "failed" THEN screen
               ELSE [screen EXCEPT !.shown = call.rows, !.estates = call.estates]
  /\ calls' = [calls EXCEPT ![c] = NoCall]
  /\ UNCHANGED hub

AccessNext ==
  \/ \E u \in User : Elsewhere(u)
  \/ \E c \in Call :
       \/ \E a \in Assignment : AssignRole(c, a) \/ Remove(c, a)
       \/ SubmitUser(c)
       \/ Authorize(c) \/ Serve(c) \/ Refuse(c) \/ Directory(c) \/ Lands(c)

AccessSpec == AccessInit /\ [][AccessNext]_accessVars

----------------------------------------------------------------------------
(* Properties. *)

\* Who gave g had the say there: as the built-in administrator, as who registered
\* the estate, or by an earlier grant.
Founded(g) ==
  \/ g.by = Root
  \/ g.kind = "registered" /\ g.row.principal = g.by
  \/ \E h \in hub.grants : h.at < g.at /\ GivesSay(h.row, g.by, g.row.place)

\* However delegates delegate further, whatever is revoked or removed while their
\* requests are on their way: a role somewhere is the end of a chain of grants
\* that the built-in administrator or the creator of the estate began.
DelegationStaysInside ==
  /\ \A a \in hub.assigned : \E g \in hub.grants : g.row = a
  /\ \A g \in hub.grants : Founded(g)
=============================================================================
