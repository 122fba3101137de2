-------------------------- MODULE EnvironmentDetail --------------------------
(***************************************************************************)
(* The page of one environment, EnvironmentDetailPage                      *)
(* (frontend/src/pages/environment-detail.tsx), against the rows behind    *)
(* the routes it calls.                                                    *)
(*                                                                         *)
(* The component stays mounted when only the id in its route changes (a    *)
(* bell link, Back, Forward): what it shows is then still the environment  *)
(* it loaded last, while its handlers take the id from the route.  Every   *)
(* call to the hub is a task of its own; calls are answered in any order.  *)
(* The text of messages, the tabs, the filters and the activity stream are *)
(* left out.                                                               *)
(***************************************************************************)
EXTENDS Integers, FiniteSets

CONSTANTS
  Env,            \* environments with a row at the start
  NoEnv,          \* the list of environments, and the environment of no copy
  Task,           \* event handlers that may be running at one time
  Resource,       \* resource types in the inventory of every environment
  NoResource,     \* no action is marked as running
  Unmanaged,      \* those of them that are deactivated at the start
  Quiet,          \* environments without activity and integrations yet
  Orchestrator,   \* environments of the orchestrator kind
  MayFollow,      \* TRUE: the route may change under the mounted page
  MayFail,        \* TRUE: a call may fail for any reason
  MaxChanges      \* bound on (de)activations and removals in a behaviour

ASSUME DetailAssumption ==
  /\ NoEnv \notin Env
  /\ NoResource \notin Resource
  /\ Unmanaged \subseteq Env
  /\ Quiet \subseteq Env
  /\ Orchestrator \subseteq Env
  /\ MayFollow \in BOOLEAN
  /\ MayFail \in BOOLEAN
  /\ MaxChanges \in Nat

VARIABLES
  registered,   \* registered[e]: the managed_environments row is there
  managed,      \* managed[e]: its is_managed
  changes,      \* changes of is_managed and removals requested so far
  route,        \* the id in the location, NoEnv on any other page
  page,         \* the state of the mounted component
  task          \* task[t]: one run of an event handler or of the load effect

hub  == <<registered, managed, changes>>
vars == <<registered, managed, changes, route, page, task>>

Copy == [env : Env \cup {NoEnv}, managed : BOOLEAN]
NoCopy == [env |-> NoEnv, managed |-> FALSE]

Page ==
  [shown : Copy, failed : BOOLEAN, busy : BOOLEAN, syncing : BOOLEAN,
   acting : Resource \cup {NoResource}, asking : {"no", "deactivate", "deregister"}]

\* The component as it is mounted: nothing loaded, nothing going on.
Fresh == [shown |-> NoCopy, failed |-> FALSE, busy |-> FALSE, syncing |-> FALSE,
          acting |-> NoResource, asking |-> "no"]

\* The handlers that hold `busy` until they return.
Registrar == {"save", "save and sync", "activate", "deactivate", "deregister"}
Handler   == Registrar \cup {"sync", "action"}

\* A handler keeps the id and the environment of the render it was clicked in;
\* live: the component it belongs to is still mounted.
TaskState ==
  [kind : {"none", "visit"} \cup Handler, env : Env \cup {NoEnv}, named : Env \cup {NoEnv},
   step : {"idle", "call", "sync", "reload", "got", "lost", "refused", "done"},
   read : Copy, live : BOOLEAN]

NoTask == [kind |-> "none", env |-> NoEnv, named |-> NoEnv, step |-> "idle",
           read |-> NoCopy, live |-> FALSE]

Live(t) == task[t].kind # "none" /\ task[t].live

TypeOK ==
  /\ registered \in [Env -> BOOLEAN]
  /\ managed \in [Env -> BOOLEAN]
  /\ changes \in 0 .. MaxChanges
  /\ route \in Env \cup {NoEnv}
  /\ page \in Page
  /\ task \in [Task -> TaskState]

Init ==
  /\ registered = [e \in Env |-> TRUE]
  /\ managed = [e \in Env |-> e \notin Unmanaged]
  /\ changes = 0
  /\ route = NoEnv
  /\ page = Fresh
  /\ task = [t \in Task |-> NoTask]

----------------------------------------------------------------------------
(* The route: useEffect loads on every new id and aborts the load before it. *)

Visit(e) == [NoTask EXCEPT !.kind = "visit", !.env = e, !.step = "reload", !.live = TRUE]

Free(t) == task[t].kind \in {"none", "visit"}

\* The cleanup of the effect aborts its load, whose result is then ignored.
Aborted(s) == IF s.kind = "visit" THEN NoTask ELSE s

\* Only calls that the hub has not had yet still matter without the page, and
\* the navigation of a removal.
Unmounted(s) == IF s.step \in {"call", "sync", "done"} THEN [s EXCEPT !.live = FALSE]
                ELSE NoTask

Open(e, t) ==
  /\ route = NoEnv
  /\ Free(t)
  /\ route' = e
  /\ task' = [task EXCEPT ![t] = Visit(e)]
  /\ UNCHANGED <<hub, page>>

\* Mutant: the effect runs on mount only.
FollowWithoutLoad(e, t) ==
  /\ MayFollow
  /\ route \in Env \ {e}
  /\ route' = e
  /\ task' = [u \in Task |-> Aborted(task[u])]
  /\ UNCHANGED <<hub, page>>

\* Mutant: the load of the previous id is not aborted.
FollowWithoutAbort(e, t) ==
  /\ MayFollow
  /\ route \in Env \ {e}
  /\ Free(t)
  /\ route' = e
  /\ task' = [task EXCEPT ![t] = Visit(e)]
  /\ UNCHANGED <<hub, page>>

\* Another id under the mounted component: no state is reset.
Follow(e, t) ==
  /\ MayFollow
  /\ route \in Env \ {e}
  /\ Free(t)
  /\ route' = e
  /\ task' = [u \in Task |-> IF u = t THEN Visit(e) ELSE Aborted(task[u])]
  /\ UNCHANGED <<hub, page>>

Leave ==
  /\ route \in Env
  /\ route' = NoEnv
  /\ page' = Fresh
  /\ task' = [u \in Task |-> Unmounted(task[u])]
  /\ UNCHANGED hub

----------------------------------------------------------------------------
(* What the page offers. *)

\* Before the first load there is only "Loading" or "Environment unavailable".
Rendered == page.shown # NoCopy

\* An open dialog keeps the page behind it out of reach.
Reachable == Rendered /\ page.asking = "no"

HeaderSyncs       == ~page.syncing
OverviewSyncs     == page.shown.env \in Quiet
IntegrationsSyncs == page.shown.env \in Quiet \cap Orchestrator

\* buildResourceAction: the types that have a direct action.
Actionable == {"job_template", "workflow_job_template", "project", "activation", "repository"}

InventoryActs(r) == r \in Actionable /\ page.acting # r

\* The settings form: its submit button waits for `busy`.
SettingsSave == ~page.busy

----------------------------------------------------------------------------
(* The handlers, up to their first await. *)

Started(kind) ==
  [NoTask EXCEPT !.kind = kind, !.env = route, !.named = page.shown.env,
                 !.step = "call", !.live = TRUE]

Start(t, kind) ==
  /\ task[t].kind = "none"
  /\ task' = [task EXCEPT ![t] = Started(kind)]
  /\ UNCHANGED <<registered, managed, route>>

Change == changes < MaxChanges /\ changes' = changes + 1

\* Mutant: the form does not look at busy.
HandleSaveUnguarded(t, kind) ==
  /\ Reachable
  /\ Start(t, kind)
  /\ page' = [page EXCEPT !.busy = TRUE, !.failed = FALSE]
  /\ UNCHANGED changes

HandleSave(t, kind) ==
  /\ Reachable
  /\ SettingsSave
  /\ Start(t, kind)
  /\ page' = [page EXCEPT !.busy = TRUE, !.failed = FALSE]
  /\ UNCHANGED changes

HandleSync(t) ==
  /\ Reachable
  /\ HeaderSyncs \/ OverviewSyncs \/ IntegrationsSyncs
  /\ Start(t, "sync")
  /\ page' = [page EXCEPT !.syncing = TRUE, !.failed = FALSE]
  /\ UNCHANGED changes

\* The Activate button; Deactivate and De-register ask first.
HandleActivate(t) ==
  /\ Reachable
  /\ ~page.shown.managed
  /\ ~page.busy
  /\ Change
  /\ Start(t, "activate")
  /\ page' = [page EXCEPT !.busy = TRUE, !.failed = FALSE]

Ask(kind) ==
  /\ Reachable
  /\ ~page.busy
  /\ kind = "deactivate" => page.shown.managed
  /\ page' = [page EXCEPT !.asking = kind]
  /\ UNCHANGED <<hub, route, task>>

Cancel ==
  /\ page.asking # "no"
  /\ page' = [page EXCEPT !.asking = "no"]
  /\ UNCHANGED <<hub, route, task>>

\* handleSetManaged(false) and handleDeregister, from the dialog.
Confirm(t) ==
  /\ page.asking # "no"
  /\ Change
  /\ Start(t, page.asking)
  /\ page' = [page EXCEPT !.asking = "no", !.busy = TRUE, !.failed = FALSE]

HandleResourceAction(t, r) ==
  /\ Reachable
  /\ InventoryActs(r)
  /\ Start(t, "action")
  /\ page' = [page EXCEPT !.acting = r, !.failed = FALSE]
  /\ UNCHANGED changes

----------------------------------------------------------------------------
(* The hub, and what a handler does with its answers. *)

Goes(t, from, to) == task[t].step = from /\ task' = [task EXCEPT ![t].step = to]

\* The change of a registration is committed; a reload follows.
Write(t) ==
  LET e == task[t].env IN
  /\ task[t].step = "call"
  /\ task[t].kind \in Registrar \ {"deregister"}
  /\ registered[e]
  /\ managed' = [managed EXCEPT ![e] = IF task[t].kind = "activate" THEN TRUE
                                       ELSE IF task[t].kind = "deactivate" THEN FALSE
                                       ELSE @]
  /\ task' = [task EXCEPT ![t].step = IF task[t].kind = "save and sync" THEN "sync"
                                      ELSE "reload"]
  /\ UNCHANGED <<registered, changes, route, page>>

Delete(t) ==
  /\ task[t].kind = "deregister"
  /\ Goes(t, "call", "done")
  /\ registered[task[t].env]
  /\ registered' = [registered EXCEPT ![task[t].env] = FALSE]
  /\ UNCHANGED <<managed, changes, route, page>>

\* The sync route wants a managed environment; its lock may be taken.
QueueSync(t) ==
  /\ \/ Goes(t, "sync", "reload")
     \/ task[t].kind = "sync" /\ Goes(t, "call", "reload")
  /\ registered[task[t].env] /\ managed[task[t].env]
  /\ UNCHANGED <<hub, route, page>>

Act(t) ==
  /\ task[t].kind = "action"
  /\ registered[task[t].env]
  /\ Goes(t, "call", "reload")
  /\ UNCHANGED <<hub, route, page>>

Refuse(t) ==
  /\ Goes(t, "call", "refused") \/ Goes(t, "sync", "refused")
  /\ \/ ~registered[task[t].env]
     \/ task[t].kind = "sync" \/ task[t].step = "sync"
     \/ MayFail
  /\ UNCHANGED <<hub, route, page>>

\* Mutant: request() takes the body of an answer whatever its status is.
AnswerUnchecked(t) ==
  /\ task[t].step = "reload"
  /\ task' = [task EXCEPT ![t].step = "got",
       ![t].read = IF registered[task[t].env]
                   THEN [env |-> task[t].env, managed |-> managed[task[t].env]]
                   ELSE [env |-> NoResource, managed |-> FALSE]]
  /\ UNCHANGED <<hub, route, page>>

\* GET /environments/{id} of loadEnvironment.
Answer(t) ==
  LET e == task[t].env IN
  /\ task[t].step = "reload"
  /\ \/ /\ registered[e]
        /\ task' = [task EXCEPT ![t].step = "got",
                                ![t].read = [env |-> e, managed |-> managed[e]]]
     \/ /\ ~registered[e] \/ MayFail
        /\ task' = [task EXCEPT ![t].step = "lost"]
  /\ UNCHANGED <<hub, route, page>>

\* The finally clauses: a slot is cleared whoever set it last.
Finished(kind) ==
  [page EXCEPT !.busy    = @ /\ kind \notin Registrar,
               !.syncing = @ /\ kind # "sync",
               !.acting  = IF kind = "action" THEN NoResource ELSE @]

\* setState of a component that is gone does nothing.
Settle(t, new) ==
  /\ task' = [task EXCEPT ![t] = NoTask]
  /\ page' = IF task[t].live THEN new ELSE page
  /\ UNCHANGED <<hub, route>>

Show(t) ==
  /\ task[t].step = "got"
  /\ Settle(t, [Finished(task[t].kind) EXCEPT !.shown = task[t].read, !.failed = FALSE])

\* Mutant: busy is cleared at the end of the try, not in a finally clause.
ReportStaysBusy(t) ==
  /\ task[t].step \in {"lost", "refused"}
  /\ Settle(t, [page EXCEPT !.failed = TRUE])

Report(t) ==
  /\ task[t].step \in {"lost", "refused"}
  /\ Settle(t, [Finished(task[t].kind) EXCEPT !.failed = TRUE])

\* navigate("/environments"), also when the user has gone elsewhere meanwhile.
Deregistered(t) ==
  /\ task[t].step = "done"
  /\ route' = NoEnv
  /\ page' = Fresh
  /\ task' = [u \in Task |-> IF u = t THEN NoTask ELSE Unmounted(task[u])]
  /\ UNCHANGED hub

\* Another administrator changes or removes the registration.
Elsewhere(e) ==
  /\ registered[e]
  /\ Change
  /\ \/ /\ managed' = [managed EXCEPT ![e] = ~@]
        /\ UNCHANGED registered
     \/ /\ registered' = [registered EXCEPT ![e] = FALSE]
        /\ UNCHANGED managed
  /\ UNCHANGED <<route, page, task>>

User ==
  \/ Leave \/ Cancel
  \/ \E kind \in {"deactivate", "deregister"} : Ask(kind)
  \/ \E t \in Task :
       \/ \E e \in Env : Open(e, t) \/ Follow(e, t)
       \/ \E kind \in {"save", "save and sync"} : HandleSave(t, kind)
       \/ HandleSync(t) \/ HandleActivate(t) \/ Confirm(t)
       \/ \E r \in Resource : HandleResourceAction(t, r)

Proceed(t) ==
  \/ Write(t) \/ Delete(t) \/ QueueSync(t) \/ Act(t) \/ Refuse(t)
  \/ Answer(t) \/ Show(t) \/ Report(t) \/ Deregistered(t)

Next ==
  \/ User
  \/ \E t \in Task : Proceed(t)
  \/ \E e \in Env : Elsewhere(e)

Spec == Init /\ [][Next]_vars

\* Calls are answered or fail, and promises are resolved; users owe nothing.
Fairness == \A t \in Task : WF_vars(Proceed(t))

FairSpec == Spec /\ Fairness

----------------------------------------------------------------------------
(* Properties. *)

\* At most one handler of the mounted page is changing the registration, and
\* `busy`, which disables the others, is set exactly as long as it runs: also
\* across route changes, failures and the dialog.
BusyMeansOne ==
  /\ page.busy <=> \E t \in Task : Live(t) /\ task[t].kind \in Registrar
  /\ \A t, u \in Task :
       Live(t) /\ Live(u) /\ {task[t].kind, task[u].kind} \subseteq Registrar => t = u

\* A load that was overtaken by another route never lands: what replaces the
\* copy on screen is of the route, unless a handler clicked before the route
\* changed brings it.
VisitShowsRoute ==
  [][page'.shown \notin {page.shown, NoCopy} =>
       \/ page'.shown.env = route
       \/ \E t \in Task : Live(t) /\ task[t].kind \in Handler
                          /\ task[t].env = page'.shown.env]_vars

\* A page that shows "Loading environment..." comes to show the environment of
\* its route, or an error, unless the user goes on.
LoadingEnds ==
  \A e \in Env : route = e /\ ~Rendered ~> route # e \/ page.failed \/ page.shown.env = e

\* The page does not stay locked: `busy` is always released.
BusyClears == page.busy ~> ~page.busy

\* "De-register ${environment.name}? This removes the registration": what is
\* removed is what the page named when the user confirmed.
RemovesWhatWasNamed ==
  \A t \in Task : task[t].kind = "deregister" => task[t].env = task[t].named
=============================================================================
