----------------------- MODULE EnvironmentDetailProofs -----------------------
(***************************************************************************)
(* Proofs about EnvironmentDetail, for every fleet, every number of        *)
(* handlers under way and every way in which calls may fail.               *)
(***************************************************************************)
EXTENDS EnvironmentDetail, TLAPS

\* What a run of a handler, or of the load effect, is about.
TaskInv ==
  \A t \in Task :
    /\ task[t].kind = "none" => task[t].step = "idle"
    /\ task[t].kind # "none" => task[t].env \in Env
    /\ task[t].kind = "visit" => /\ task[t].env = route
                                 /\ task[t].step \in {"reload", "got", "lost"}
    /\ task[t].step = "got" => task[t].read.env = task[t].env
    /\ task[t].live => route \in Env

\* Without a route there is no page, and a dialog is over a page that is not busy.
PageInv ==
  /\ route = NoEnv => page = Fresh
  /\ page.asking # "no" => Rendered /\ ~page.busy

DetailInv == TypeOK /\ TaskInv /\ PageInv /\ BusyMeansOne

-----------------------------------------------------------------------------
(* Tasks. *)

LEMMA VisitTyped ==
  ASSUME NEW e \in Env
  PROVE  Visit(e) \in TaskState
  BY DEF Visit, NoTask, NoCopy, Copy, TaskState

LEMMA NoTaskTyped == NoTask \in TaskState
  BY DEF NoTask, NoCopy, Copy, TaskState

LEMMA FreshTyped == Fresh \in Page
  BY DEF Fresh, Page, NoCopy, Copy

\* The cleanup of an effect, and the end of the component, keep tasks typed.
LEMMA EndedTyped ==
  ASSUME NEW s \in TaskState
  PROVE  Aborted(s) \in TaskState /\ Unmounted(s) \in TaskState
  <1>1. [s EXCEPT !.live = FALSE] \in TaskState
    BY DEF TaskState
  <1> QED BY <1>1, NoTaskTyped DEF Aborted, Unmounted

LEMMA InvInit == Init => DetailInv
  <1> SUFFICES ASSUME Init PROVE DetailInv
    OBVIOUS
  <1>1. TypeOK
    BY NoTaskTyped, FreshTyped, DetailAssumption DEF Init, TypeOK
  <1>2. \A t \in Task : task[t] = NoTask
    BY DEF Init
  <1>3. TaskInv
    BY <1>2 DEF TaskInv, NoTask
  <1>4. PageInv
    BY DEF Init, PageInv, Fresh
  <1>5. BusyMeansOne
    BY <1>2 DEF Init, BusyMeansOne, Live, NoTask, Fresh
  <1> QED BY <1>1, <1>3, <1>4, <1>5 DEF DetailInv

-----------------------------------------------------------------------------
(* The four shapes of a step. *)

\* A call goes on: its handler, its environment and its page stay the same.
LEMMA GoesOn ==
  ASSUME DetailInv, NEW t \in Task, NEW s \in TaskState,
         task' = [task EXCEPT ![t] = s],
         task[t].kind # "none",
         s.kind = task[t].kind, s.env = task[t].env, s.live = task[t].live,
         s.kind = "visit" => s.step \in {"reload", "got", "lost"},
         s.step = "got" => s.read.env = s.env,
         registered' \in [Env -> BOOLEAN], managed' \in [Env -> BOOLEAN],
         UNCHANGED <<changes, route, page>>
  PROVE  DetailInv'
  <1>1. task'[t] = s /\ \A u \in Task \ {t} : task'[u] = task[u]
    BY DEF DetailInv, TypeOK
  <1>2. TypeOK'
    BY DEF DetailInv, TypeOK
  <1>3. TaskInv'
    BY <1>1 DEF DetailInv, TaskInv
  <1>4. PageInv'
    BY DEF DetailInv, PageInv, Rendered
  <1>5. \A u \in Task : task'[u].kind = task[u].kind /\ task'[u].live = task[u].live
    BY <1>1
  <1>6. \A u \in Task : Live(u)' <=> Live(u)
    BY <1>5 DEF Live
  <1>7. BusyMeansOne'
    BY <1>5, <1>6 DEF DetailInv, BusyMeansOne
  <1> QED BY <1>2, <1>3, <1>4, <1>7 DEF DetailInv

\* A handler starts on a page that shows something; one that takes `busy` finds
\* it free.
LEMMA Starts ==
  ASSUME DetailInv, NEW t \in Task, NEW kind \in Handler, Start(t, kind), Rendered,
         kind \in Registrar => ~page.busy,
         page' \in Page,
         page'.asking = "no",
         page'.busy <=> page.busy \/ kind \in Registrar,
         changes' \in 0 .. MaxChanges
  PROVE  DetailInv'
  <1>1. route \in Env
    BY DEF DetailInv, TypeOK, PageInv, Rendered, Fresh
  <1>2. Started(kind) \in TaskState
    <2>1. page.shown.env \in Env \cup {NoEnv}
      BY DEF DetailInv, TypeOK, Page, Copy
    <2> QED BY <1>1, <2>1 DEF Started, NoTask, NoCopy, Copy, TaskState
  <1>3. /\ Started(kind).kind = kind /\ Started(kind).env = route
        /\ Started(kind).step = "call" /\ Started(kind).live = TRUE
    BY DEF Started, NoTask
  <1>4. task'[t] = Started(kind) /\ \A u \in Task \ {t} : task'[u] = task[u]
    BY DEF Start, DetailInv, TypeOK
  <1>5. TypeOK'
    BY <1>2 DEF Start, DetailInv, TypeOK
  <1>6. kind \notin {"none", "visit"}
    BY DEF Handler, Registrar
  <1>7. TaskInv'
    BY <1>1, <1>3, <1>4, <1>6 DEF Start, DetailInv, TaskInv
  <1>8. PageInv'
    BY <1>1, DetailAssumption DEF Start, DetailInv, PageInv
  <1>9. BusyMeansOne'
    <2>1. \A u \in Task \ {t} : Live(u)' <=> Live(u)
      BY <1>4 DEF Live
    <2>2. ~Live(t)
      BY DEF Start, Live
    <2>3. Live(t)'
      BY <1>3, <1>4, <1>6 DEF Live
    <2>4. CASE kind \in Registrar
      <3>1. \A u \in Task \ {t} : ~(Live(u)' /\ task'[u].kind \in Registrar)
        BY <1>4, <2>1, <2>4 DEF DetailInv, BusyMeansOne
      <3> QED BY <1>3, <1>4, <2>3, <2>4, <3>1 DEF BusyMeansOne
    <2>5. CASE kind \notin Registrar
      <3>1. task'[t].kind \notin Registrar
        BY <1>3, <1>4, <2>5
      <3> QED BY <1>4, <2>1, <2>2, <2>5, <3>1 DEF DetailInv, BusyMeansOne
    <2> QED BY <2>4, <2>5
  <1> QED BY <1>5, <1>7, <1>8, <1>9 DEF DetailInv

\* A handler returns, and clears what it holds if its page is still there.
LEMMA Settles ==
  ASSUME DetailInv, NEW t \in Task, NEW new \in Page, Settle(t, new),
         task[t].kind # "none",
         new.asking = page.asking,
         new.busy <=> page.busy /\ task[t].kind \notin Registrar,
         new.shown \in {page.shown} \/ new.shown # NoCopy
  PROVE  DetailInv'
  <1>1. task'[t] = NoTask /\ \A u \in Task \ {t} : task'[u] = task[u]
    BY DEF Settle, DetailInv, TypeOK
  <1>2. page' = IF task[t].live THEN new ELSE page
    BY DEF Settle
  <1>3. TypeOK'
    BY <1>2, NoTaskTyped DEF Settle, hub, DetailInv, TypeOK
  <1>4. TaskInv'
    BY <1>1 DEF Settle, DetailInv, TaskInv, NoTask
  <1>5. PageInv'
    <2>1. CASE task[t].live
      <3>1. route \in Env
        BY <2>1 DEF DetailInv, TaskInv
      <3> QED BY <1>2, <2>1, <3>1, DetailAssumption DEF Settle, DetailInv, PageInv, Rendered
    <2>2. CASE ~task[t].live
      BY <1>2, <2>2 DEF Settle, DetailInv, PageInv, Rendered
    <2> QED BY <2>1, <2>2
  <1>6. BusyMeansOne'
    <2>1. \A u \in Task \ {t} : Live(u)' <=> Live(u)
      BY <1>1 DEF Live
    <2>2. ~Live(t)'
      BY <1>1 DEF Live, NoTask
    <2>3. CASE ~task[t].live
      <3>1. ~Live(t) /\ page' = page
        BY <1>2, <2>3 DEF Live
      <3> QED BY <1>1, <2>1, <2>2, <3>1 DEF DetailInv, BusyMeansOne
    <2>4. CASE task[t].live /\ task[t].kind \in Registrar
      <3>1. Live(t) /\ ~page'.busy
        BY <1>2, <2>4 DEF Live
      <3>2. \A u \in Task \ {t} : ~(Live(u)' /\ task'[u].kind \in Registrar)
        BY <1>1, <2>1, <2>4, <3>1 DEF DetailInv, BusyMeansOne
      <3> QED BY <2>2, <3>1, <3>2 DEF BusyMeansOne
    <2>5. CASE task[t].live /\ task[t].kind \notin Registrar
      <3>1. page'.busy <=> page.busy
        BY <1>2, <2>5
      <3> QED BY <1>1, <2>1, <2>2, <2>5, <3>1 DEF DetailInv, BusyMeansOne
    <2> QED BY <2>3, <2>4, <2>5
  <1> QED BY <1>3, <1>4, <1>5, <1>6 DEF DetailInv

\* The component is gone: none of its handlers is live, no load is left.
LEMMA Ends ==
  ASSUME DetailInv,
         route' = NoEnv, page' = Fresh, UNCHANGED hub,
         task' \in [Task -> TaskState],
         \A u \in Task : task'[u] \in {NoTask, Unmounted(task[u])}
  PROVE  DetailInv'
  <1>1. TypeOK'
    BY FreshTyped DEF hub, DetailInv, TypeOK
  <1>2. ASSUME NEW u \in Task
        PROVE  \/ task'[u] = NoTask
               \/ /\ task[u].step \in {"call", "sync", "done"}
                  /\ task'[u] = [task[u] EXCEPT !.live = FALSE]
    BY <1>2 DEF Unmounted
  <1>3. ASSUME NEW u \in Task,
               task[u].step \in {"call", "sync", "done"},
               task'[u] = [task[u] EXCEPT !.live = FALSE]
        PROVE  /\ task'[u].step = task[u].step /\ task'[u].kind = task[u].kind
               /\ task'[u].env = task[u].env /\ ~task'[u].live
    BY <1>3 DEF DetailInv, TypeOK, TaskState
  <1>4. TaskInv'
    <2> SUFFICES ASSUME NEW u \in Task
                 PROVE  /\ task'[u].kind = "none" => task'[u].step = "idle"
                        /\ task'[u].kind # "none" => task'[u].env \in Env
                        /\ task'[u].kind # "visit"
                        /\ task'[u].step # "got"
                        /\ ~task'[u].live
      BY DEF TaskInv
    <2>1. CASE task'[u] = NoTask
      BY <2>1 DEF NoTask
    <2>2. CASE /\ task[u].step \in {"call", "sync", "done"}
               /\ task'[u] = [task[u] EXCEPT !.live = FALSE]
      BY <1>3, <2>2 DEF DetailInv, TaskInv
    <2> QED BY <1>2, <2>1, <2>2
  <1>5. PageInv'
    BY DEF PageInv, Fresh
  <1>6. \A u \in Task : ~Live(u)'
    BY <1>2, <1>3 DEF Live, NoTask
  <1>7. BusyMeansOne'
    BY <1>6 DEF BusyMeansOne, Fresh
  <1> QED BY <1>1, <1>4, <1>5, <1>7 DEF DetailInv

-----------------------------------------------------------------------------
(* Every action has one of these shapes, or is a visit. *)

LEMMA OpenKeeps ==
  ASSUME DetailInv, NEW e \in Env, NEW t \in Task, Open(e, t)
  PROVE  DetailInv'
  <1>1. task'[t] = Visit(e) /\ \A u \in Task \ {t} : task'[u] = task[u]
    BY DEF Open, DetailInv, TypeOK
  <1>2. /\ Visit(e).kind = "visit" /\ Visit(e).env = e
        /\ Visit(e).step = "reload" /\ Visit(e).live = TRUE
    BY DEF Visit, NoTask
  <1>3. \A u \in Task : ~task[u].live /\ task[u].kind # "visit"
    BY DetailAssumption DEF Open, DetailInv, TaskInv
  <1>4. TypeOK'
    BY VisitTyped DEF Open, hub, DetailInv, TypeOK
  <1>5. TaskInv'
    BY <1>1, <1>2, <1>3 DEF Open, DetailInv, TaskInv
  <1>6. PageInv'
    BY DetailAssumption DEF Open, DetailInv, PageInv, Rendered
  <1>7. BusyMeansOne'
    <2>1. \A u \in Task : ~(Live(u) /\ task[u].kind \in Registrar)
      BY <1>3 DEF Live
    <2>2. \A u \in Task : ~(Live(u)' /\ task'[u].kind \in Registrar)
      BY <1>1, <1>2, <1>3 DEF Live, Registrar
    <2> QED BY <2>1, <2>2 DEF Open, DetailInv, BusyMeansOne
  <1> QED BY <1>4, <1>5, <1>6, <1>7 DEF DetailInv

LEMMA FollowKeeps ==
  ASSUME DetailInv, NEW e \in Env, NEW t \in Task, Follow(e, t)
  PROVE  DetailInv'
  <1>1. /\ task'[t] = Visit(e)
        /\ \A u \in Task \ {t} : task'[u] = Aborted(task[u])
    BY DEF Follow
  <1>2. /\ Visit(e).kind = "visit" /\ Visit(e).env = e
        /\ Visit(e).step = "reload" /\ Visit(e).live = TRUE
    BY DEF Visit, NoTask
  <1>3. \A u \in Task \ {t} :
           \/ task'[u] = NoTask /\ task[u].kind = "visit"
           \/ task'[u] = task[u] /\ task[u].kind # "visit"
    BY <1>1 DEF Aborted
  <1>4. TypeOK'
    <2>1. \A u \in Task : task'[u] \in TaskState
      BY <1>1, VisitTyped, EndedTyped DEF DetailInv, TypeOK
    <2>2. task' \in [Task -> TaskState]
      BY <2>1 DEF Follow
    <2> QED BY <2>2 DEF Follow, hub, DetailInv, TypeOK
  <1>5. TaskInv'
    <2>1. \A u \in Task \ {t} : \/ task'[u] = NoTask
                                \/ task'[u] = task[u] /\ task[u].kind # "visit"
      BY <1>3
    <2> QED BY <1>1, <1>2, <2>1 DEF Follow, DetailInv, TaskInv, NoTask
  <1>6. PageInv'
    BY DetailAssumption DEF Follow, DetailInv, PageInv, Rendered
  <1>7. BusyMeansOne'
    <2>1. ~(Live(t) /\ task[t].kind \in Registrar)
      BY DEF Follow, Free, Registrar
    <2>2. ~(Live(t)' /\ task'[t].kind \in Registrar)
      BY <1>1, <1>2 DEF Registrar
    <2>3. ASSUME NEW u \in Task \ {t}
          PROVE  (Live(u)' /\ task'[u].kind \in Registrar)
                   <=> (Live(u) /\ task[u].kind \in Registrar)
      <3>1. CASE task'[u] = NoTask /\ task[u].kind = "visit"
        BY <3>1 DEF Live, NoTask, Registrar
      <3>2. CASE task'[u] = task[u]
        BY <3>2 DEF Live
      <3> QED BY <1>3, <3>1, <3>2
    <2>4. \A u \in Task : (Live(u)' /\ task'[u].kind \in Registrar)
                           <=> (Live(u) /\ task[u].kind \in Registrar)
      BY <2>1, <2>2, <2>3
    <2>5. page' = page
      BY DEF Follow
    <2>6. page'.busy <=> \E u \in Task : Live(u)' /\ task'[u].kind \in Registrar
      BY <2>4, <2>5 DEF DetailInv, BusyMeansOne
    <2>7. ASSUME NEW u \in Task, NEW w \in Task, Live(u)', Live(w)',
                 {task'[u].kind, task'[w].kind} \subseteq Registrar
          PROVE  u = w
      BY <2>4, <2>7 DEF DetailInv, BusyMeansOne
    <2> QED BY <2>6, <2>7 DEF BusyMeansOne
  <1> QED BY <1>4, <1>5, <1>6, <1>7 DEF DetailInv

\* What only moves the dialog, or the registrations.
LEMMA DialogKeeps ==
  ASSUME DetailInv, UNCHANGED <<route, task>>,
         registered' \in [Env -> BOOLEAN], managed' \in [Env -> BOOLEAN],
         changes' \in 0 .. MaxChanges,
         NEW a \in {"no", "deactivate", "deregister"},
         page' = [page EXCEPT !.asking = a],
         a # page.asking => Rendered /\ (a # "no" => ~page.busy)
  PROVE  DetailInv'
  <1>1. /\ page' \in Page /\ page'.asking = a
        /\ page'.shown = page.shown /\ page'.busy = page.busy
    BY DEF DetailInv, TypeOK, Page
  <1>2. TypeOK'
    BY <1>1 DEF DetailInv, TypeOK
  <1>3. TaskInv'
    BY DEF DetailInv, TaskInv
  <1>4. PageInv'
    <2>1. CASE a = page.asking
      <3>1. page' = page
        BY <2>1 DEF DetailInv, TypeOK, Page
      <3> QED BY <3>1 DEF DetailInv, PageInv, Rendered
    <2>2. CASE a # page.asking
      <3>1. route # NoEnv
        BY <2>2 DEF DetailInv, PageInv, Rendered, Fresh
      <3> QED BY <1>1, <2>2, <3>1 DEF PageInv, Rendered
    <2> QED BY <2>1, <2>2
  <1>5. BusyMeansOne'
    BY <1>1 DEF DetailInv, BusyMeansOne, Live
  <1> QED BY <1>2, <1>3, <1>4, <1>5 DEF DetailInv

LEMMA UserKeeps == DetailInv /\ User => DetailInv'
  <1> SUFFICES ASSUME DetailInv, User PROVE DetailInv'
    OBVIOUS
  <1>p. page \in Page /\ changes \in 0 .. MaxChanges
    BY DEF DetailInv, TypeOK
  <1>1. CASE Leave
    <2>1. \A u \in Task : task'[u] = Unmounted(task[u])
      BY <1>1 DEF Leave
    <2>2. task' \in [Task -> TaskState]
      BY <1>1, EndedTyped DEF Leave, DetailInv, TypeOK
    <2> QED BY <1>1, <2>1, <2>2, Ends DEF Leave
  <1>2. CASE Cancel
    <2>1. Rendered
      BY <1>2 DEF Cancel, DetailInv, PageInv
    <2>2. UNCHANGED <<registered, managed, changes, route, task>>
      BY <1>2 DEF Cancel, hub
    <2> QED BY <1>2, <2>1, <2>2, DialogKeeps DEF Cancel, DetailInv, TypeOK
  <1>3. ASSUME NEW kind \in {"deactivate", "deregister"}, Ask(kind)
        PROVE  DetailInv'
    <2>1. Rendered /\ ~page.busy
      BY <1>3 DEF Ask, Reachable
    <2>2. UNCHANGED <<registered, managed, changes, route, task>>
      BY <1>3 DEF Ask, hub
    <2> QED BY <1>3, <2>1, <2>2, DialogKeeps DEF Ask, DetailInv, TypeOK
  <1>4. ASSUME NEW t \in Task, NEW e \in Env, Open(e, t) \/ Follow(e, t)
        PROVE  DetailInv'
    BY <1>4, OpenKeeps, FollowKeeps
  <1>5. ASSUME NEW t \in Task, NEW kind \in {"save", "save and sync"}, HandleSave(t, kind)
        PROVE  DetailInv'
    <2>1. kind \in Registrar /\ kind \in Handler
      BY DEF Registrar, Handler
    <2>2. /\ Rendered /\ ~page.busy /\ page.asking = "no" /\ Start(t, kind)
          /\ page' = [page EXCEPT !.busy = TRUE, !.failed = FALSE] /\ changes' = changes
      BY <1>5 DEF HandleSave, Reachable, SettingsSave
    <2>3. page' \in Page /\ page'.busy = TRUE /\ page'.asking = page.asking
      BY <1>p, <2>2 DEF Page
    <2> QED BY <1>p, <2>1, <2>2, <2>3, Starts
  <1>6. ASSUME NEW t \in Task, HandleSync(t)
        PROVE  DetailInv'
    <2>1. "sync" \notin Registrar /\ "sync" \in Handler
      BY DEF Registrar, Handler
    <2>2. /\ Rendered /\ page.asking = "no" /\ Start(t, "sync")
          /\ page' = [page EXCEPT !.syncing = TRUE, !.failed = FALSE] /\ changes' = changes
      BY <1>6 DEF HandleSync, Reachable
    <2>3. page' \in Page /\ page'.busy = page.busy /\ page'.asking = page.asking
      BY <1>p, <2>2 DEF Page
    <2> QED BY <1>p, <2>1, <2>2, <2>3, Starts
  <1>7. ASSUME NEW t \in Task, HandleActivate(t)
        PROVE  DetailInv'
    <2>1. "activate" \in Registrar /\ "activate" \in Handler
      BY DEF Registrar, Handler
    <2>2. /\ Rendered /\ ~page.busy /\ page.asking = "no" /\ Start(t, "activate")
          /\ page' = [page EXCEPT !.busy = TRUE, !.failed = FALSE]
      BY <1>7 DEF HandleActivate, Reachable
    <2>3. page' \in Page /\ page'.busy = TRUE /\ page'.asking = page.asking
      BY <1>p, <2>2 DEF Page
    <2>4. changes' \in 0 .. MaxChanges
      BY <1>7, <1>p, DetailAssumption DEF HandleActivate, Change
    <2> QED BY <2>1, <2>2, <2>3, <2>4, Starts
  <1>8. ASSUME NEW t \in Task, Confirm(t)
        PROVE  DetailInv'
    <2>1. page.asking \in Registrar /\ page.asking \in Handler
      BY <1>p, <1>8 DEF Confirm, Page, Registrar, Handler
    <2>2. Rendered /\ ~page.busy
      BY <1>8 DEF Confirm, DetailInv, PageInv
    <2>3. /\ Start(t, page.asking)
          /\ page' = [page EXCEPT !.asking = "no", !.busy = TRUE, !.failed = FALSE]
      BY <1>8 DEF Confirm
    <2>4. page' \in Page /\ page'.busy = TRUE /\ page'.asking = "no"
      BY <1>p, <2>3 DEF Page
    <2>5. changes' \in 0 .. MaxChanges
      BY <1>8, <1>p, DetailAssumption DEF Confirm, Change
    <2> QED BY <2>1, <2>2, <2>3, <2>4, <2>5, Starts
  <1>9. ASSUME NEW t \in Task, NEW r \in Resource, HandleResourceAction(t, r)
        PROVE  DetailInv'
    <2>1. "action" \notin Registrar /\ "action" \in Handler
      BY DEF Registrar, Handler
    <2>2. /\ Rendered /\ page.asking = "no" /\ Start(t, "action")
          /\ page' = [page EXCEPT !.acting = r, !.failed = FALSE] /\ changes' = changes
      BY <1>9 DEF HandleResourceAction, Reachable
    <2>3. page' \in Page /\ page'.busy = page.busy /\ page'.asking = page.asking
      BY <1>p, <2>2 DEF Page
    <2> QED BY <1>p, <2>1, <2>2, <2>3, Starts
  <1> QED BY <1>1, <1>2, <1>3, <1>4, <1>5, <1>6, <1>7, <1>8, <1>9 DEF User

\* A return that clears what its handler holds.
LEMMA FinishedTyped ==
  ASSUME page \in Page, NEW kind, NEW s \in Copy, NEW f \in BOOLEAN
  PROVE  /\ [Finished(kind) EXCEPT !.failed = f] \in Page
         /\ [Finished(kind) EXCEPT !.shown = s, !.failed = f] \in Page
         /\ [Finished(kind) EXCEPT !.failed = f].shown = page.shown
         /\ [Finished(kind) EXCEPT !.shown = s, !.failed = f].shown = s
         /\ [Finished(kind) EXCEPT !.failed = f].asking = page.asking
         /\ [Finished(kind) EXCEPT !.shown = s, !.failed = f].asking = page.asking
         /\ [Finished(kind) EXCEPT !.failed = f].busy <=> page.busy /\ kind \notin Registrar
         /\ [Finished(kind) EXCEPT !.shown = s, !.failed = f].busy
               <=> page.busy /\ kind \notin Registrar
  <1>1. /\ Finished(kind) \in Page
        /\ Finished(kind).shown = page.shown
        /\ Finished(kind).asking = page.asking
        /\ Finished(kind).busy <=> page.busy /\ kind \notin Registrar
    BY DEF Finished, Page
  <1> DEFINE F == Finished(kind)
  <1>2. F \in Page
    BY <1>1
  <1> HIDE DEF F
  <1>3. /\ [F EXCEPT !.failed = f] \in Page
        /\ [F EXCEPT !.shown = s, !.failed = f] \in Page
        /\ [F EXCEPT !.failed = f].shown = F.shown
        /\ [F EXCEPT !.shown = s, !.failed = f].shown = s
        /\ [F EXCEPT !.failed = f].asking = F.asking
        /\ [F EXCEPT !.shown = s, !.failed = f].asking = F.asking
        /\ [F EXCEPT !.failed = f].busy = F.busy
        /\ [F EXCEPT !.shown = s, !.failed = f].busy = F.busy
    BY <1>2 DEF Page
  <1> QED BY <1>1, <1>3 DEF F

LEMMA ProceedKeeps ==
  ASSUME DetailInv, NEW t \in Task, Proceed(t)
  PROVE  DetailInv'
  <1> DEFINE s == task[t]
  <1>s. s \in TaskState /\ page \in Page
    BY DEF DetailInv, TypeOK
  <1>h. registered \in [Env -> BOOLEAN] /\ managed \in [Env -> BOOLEAN]
    BY DEF DetailInv, TypeOK
  <1>k. /\ s.kind = "none" => s.step = "idle"
        /\ s.kind # "none" => s.env \in Env
        /\ s.kind = "visit" => s.step \in {"reload", "got", "lost"}
        /\ s.step = "got" => s.read.env = s.env
    BY DEF DetailInv, TaskInv
  <1> HIDE DEF s
  <1>a. ASSUME NEW to \in {"sync", "reload", "lost", "refused", "done"},
               s.step # "idle", s.kind = "visit" => to \in {"reload", "lost"},
               task' = [task EXCEPT ![t] = [s EXCEPT !.step = to]],
               registered' \in [Env -> BOOLEAN], managed' \in [Env -> BOOLEAN],
               UNCHANGED <<changes, route, page>>
        PROVE  DetailInv'
    <2> DEFINE n == [s EXCEPT !.step = to]
    <2>1. /\ n \in TaskState /\ n.step = to /\ n.kind = s.kind
          /\ n.env = s.env /\ n.live = s.live
      BY <1>s DEF TaskState
    <2>2. task' = [task EXCEPT ![t] = n]
      BY <1>a
    <2> HIDE DEF n
    <2> QED BY <1>a, <1>k, <2>1, <2>2, GoesOn DEF s
  <1>1. CASE Write(t)
    <2>1. s.step = "call" /\ UNCHANGED <<registered, changes, route, page>>
      BY <1>1 DEF Write, s
    <2>2. managed' \in [Env -> BOOLEAN]
      BY <1>1, <1>h DEF Write
    <2>3. PICK to \in {"sync", "reload"} : task' = [task EXCEPT ![t] = [s EXCEPT !.step = to]]
      BY <1>1 DEF Write, s
    <2> QED BY <1>a, <1>h, <1>k, <2>1, <2>2, <2>3
  <1>2. CASE Delete(t)
    <2>1. /\ s.step = "call" /\ UNCHANGED <<managed, changes, route, page>>
          /\ task' = [task EXCEPT ![t] = [s EXCEPT !.step = "done"]]
      BY <1>2 DEF Delete, Goes, s
    <2>2. registered' \in [Env -> BOOLEAN]
      BY <1>2, <1>h DEF Delete
    <2> QED BY <1>a, <1>h, <1>k, <2>1, <2>2
  <1>3. CASE QueueSync(t)
    <2>1. /\ s.step \in {"sync", "call"} /\ UNCHANGED <<hub, route, page>>
          /\ task' = [task EXCEPT ![t] = [s EXCEPT !.step = "reload"]]
      BY <1>3 DEF QueueSync, Goes, s
    <2> QED BY <1>a, <1>h, <1>k, <2>1 DEF hub
  <1>4. CASE Act(t)
    <2>1. /\ s.step = "call" /\ UNCHANGED <<hub, route, page>>
          /\ task' = [task EXCEPT ![t] = [s EXCEPT !.step = "reload"]]
      BY <1>4 DEF Act, Goes, s
    <2> QED BY <1>a, <1>h, <1>k, <2>1 DEF hub
  <1>5. CASE Refuse(t)
    <2>1. /\ s.step \in {"sync", "call"} /\ UNCHANGED <<hub, route, page>>
          /\ task' = [task EXCEPT ![t] = [s EXCEPT !.step = "refused"]]
      BY <1>5 DEF Refuse, Goes, s
    <2> QED BY <1>a, <1>h, <1>k, <2>1 DEF hub
  <1>6. CASE Answer(t)
    <2>1. s.step = "reload" /\ UNCHANGED <<hub, route, page>>
      BY <1>6 DEF Answer, s
    <2>2. CASE task' = [task EXCEPT ![t] = [s EXCEPT !.step = "lost"]]
      BY <1>a, <1>h, <2>1, <2>2 DEF hub
    <2>3. CASE task' = [task EXCEPT ![t] = [s EXCEPT !.step = "got",
                          !.read = [env |-> s.env, managed |-> managed[s.env]]]]
      <3> DEFINE c == [env |-> s.env, managed |-> managed[s.env]]
                 n == [s EXCEPT !.step = "got", !.read = c]
      <3>1. s.env \in Env /\ s.kind # "none"
        BY <1>k, <2>1
      <3>2. c \in Copy /\ c.env = s.env
        BY <1>h, <3>1 DEF Copy
      <3>3. task' = [task EXCEPT ![t] = n]
        BY <2>3
      <3> HIDE DEF c
      <3>4. /\ n \in TaskState /\ n.step = "got" /\ n.read = c /\ n.kind = s.kind
            /\ n.env = s.env /\ n.live = s.live
        BY <1>s, <3>2 DEF TaskState
      <3> HIDE DEF n
      <3> QED BY <1>h, <2>1, <3>1, <3>2, <3>3, <3>4, GoesOn DEF s, hub
    <2> QED BY <1>6, <2>2, <2>3 DEF Answer, s
  <1>7. CASE Show(t)
    <2> DEFINE new == [Finished(s.kind) EXCEPT !.shown = s.read, !.failed = FALSE]
    <2>1. s.step = "got" /\ Settle(t, new)
      BY <1>7 DEF Show, s
    <2>2. s.read \in Copy /\ s.kind # "none"
      BY <1>s, <1>k, <2>1 DEF TaskState
    <2>3. /\ new \in Page /\ new.shown = s.read /\ new.asking = page.asking
          /\ new.busy <=> page.busy /\ s.kind \notin Registrar
      BY <1>s, <2>2, FinishedTyped
    <2>4. new.shown # NoCopy
      BY <1>k, <2>1, <2>2, <2>3, DetailAssumption DEF NoCopy
    <2> HIDE DEF new
    <2> QED BY <2>1, <2>2, <2>3, <2>4, Settles DEF s
  <1>8. CASE Report(t)
    <2> DEFINE new == [Finished(s.kind) EXCEPT !.failed = TRUE]
    <2>1. s.step \in {"lost", "refused"} /\ Settle(t, new)
      BY <1>8 DEF Report, s
    <2>2. s.kind # "none"
      BY <1>k, <2>1
    <2>3. /\ new \in Page /\ new.shown = page.shown /\ new.asking = page.asking
          /\ new.busy <=> page.busy /\ s.kind \notin Registrar
      BY <1>s, FinishedTyped DEF Page
    <2> HIDE DEF new
    <2> QED BY <2>1, <2>2, <2>3, Settles DEF s
  <1>9. CASE Deregistered(t)
    <2>1. \A u \in Task : task'[u] \in {NoTask, Unmounted(task[u])}
      BY <1>9 DEF Deregistered
    <2>2. \A u \in Task : task'[u] \in TaskState
      BY <2>1, NoTaskTyped, EndedTyped DEF DetailInv, TypeOK
    <2>3. task' \in [Task -> TaskState]
      BY <1>9, <2>2 DEF Deregistered
    <2> QED BY <1>9, <2>1, <2>3, Ends DEF Deregistered
  <1> QED BY <1>1, <1>2, <1>3, <1>4, <1>5, <1>6, <1>7, <1>8, <1>9 DEF Proceed

LEMMA ElsewhereKeeps ==
  ASSUME DetailInv, NEW e \in Env, Elsewhere(e)
  PROVE  DetailInv'
  <1>1. registered' \in [Env -> BOOLEAN] /\ managed' \in [Env -> BOOLEAN]
    BY DEF Elsewhere, DetailInv, TypeOK
  <1>2. changes' \in 0 .. MaxChanges /\ UNCHANGED <<route, page, task>>
    BY DetailAssumption DEF Elsewhere, Change, DetailInv, TypeOK
  <1>3. TypeOK'
    BY <1>1, <1>2 DEF DetailInv, TypeOK
  <1> QED BY <1>2, <1>3 DEF DetailInv, TaskInv, PageInv, Rendered, BusyMeansOne, Live

LEMMA InvNext == DetailInv /\ [Next]_vars => DetailInv'
  <1> SUFFICES ASSUME DetailInv, [Next]_vars PROVE DetailInv'
    OBVIOUS
  <1>1. CASE UNCHANGED vars
    BY <1>1 DEF vars, DetailInv, TypeOK, TaskInv, PageInv, Rendered, BusyMeansOne, Live
  <1>2. CASE Next
    BY <1>2, UserKeeps, ProceedKeeps, ElsewhereKeeps DEF Next
  <1> QED BY <1>1, <1>2

LEMMA DetailInvariant == Spec => []DetailInv
  BY InvInit, InvNext, PTL DEF Spec

-----------------------------------------------------------------------------
(* The results. *)

\* The page, the handlers and the registrations keep their types: every answer
\* that reaches the page is a copy of an environment.
THEOREM DetailTypeCorrect == Spec => []TypeOK
  <1>1. DetailInv => TypeOK
    BY DEF DetailInv
  <1> QED BY <1>1, DetailInvariant, PTL

\* `busy` is set exactly as long as one handler of the mounted page changes the
\* registration, and there is never a second one, however many calls are under
\* way, whatever fails and wherever the route goes.
THEOREM OneRegistrar == Spec => []BusyMeansOne
  <1>1. DetailInv => BusyMeansOne
    BY DEF DetailInv
  <1> QED BY <1>1, DetailInvariant, PTL

\* What comes on the screen is of the route of now, or was asked for by a live
\* handler: a load that was overtaken by another route never lands.
THEOREM VisitsShowRoute == Spec => VisitShowsRoute
  <1> DEFINE Lands == page'.shown \notin {page.shown, NoCopy} =>
                        \/ page'.shown.env = route
                        \/ \E t \in Task : Live(t) /\ task[t].kind \in Handler
                                           /\ task[t].env = page'.shown.env
  <1>1. ASSUME DetailInv, [Next]_vars
        PROVE  Lands
    <2>p. page \in Page
      BY <1>1 DEF DetailInv, TypeOK
    <2>1. CASE \E t \in Task : Show(t)
      <3>1. PICK t \in Task : Show(t)
        BY <2>1
      <3>2. task[t].kind # "none" /\ task[t].read.env = task[t].env
        BY <1>1, <3>1 DEF Show, DetailInv, TaskInv
      <3>3. task[t] \in TaskState
        BY <1>1 DEF DetailInv, TypeOK
      <3>4. CASE ~task[t].live
        BY <3>1, <3>4 DEF Show, Settle
      <3>5. CASE task[t].live
        <4>1. page' = [Finished(task[t].kind) EXCEPT !.shown = task[t].read, !.failed = FALSE]
          BY <3>1, <3>5 DEF Show, Settle
        <4>2. task[t].read \in Copy
          BY <3>3 DEF TaskState
        <4>3. page'.shown = task[t].read
          BY <2>p, <4>1, <4>2, FinishedTyped
        <4>4. CASE task[t].kind = "visit"
          BY <1>1, <3>2, <4>3, <4>4 DEF DetailInv, TaskInv
        <4>5. CASE task[t].kind \in Handler
          BY <3>2, <3>5, <4>3, <4>5 DEF Live
        <4> QED BY <3>2, <3>3, <4>4, <4>5 DEF TaskState
      <3> QED BY <3>4, <3>5
    <2>2. CASE \E t \in Task : Report(t)
      <3>1. PICK t \in Task : Report(t)
        BY <2>2
      <3>2. page' \in {page, [Finished(task[t].kind) EXCEPT !.failed = TRUE]}
        BY <3>1 DEF Report, Settle
      <3>3. page'.shown = page.shown
        BY <2>p, <3>2 DEF Finished, Page
      <3> QED BY <3>3
    <2>3. CASE Leave \/ \E t \in Task : Deregistered(t)
      BY <2>3 DEF Leave, Deregistered, Fresh
    <2>4. CASE Cancel \/ \E kind \in {"deactivate", "deregister"} : Ask(kind)
      BY <2>p, <2>4 DEF Cancel, Ask, Page
    <2>5. CASE \E t \in Task :
                 \/ \E kind \in {"save", "save and sync"} : HandleSave(t, kind)
                 \/ HandleSync(t) \/ HandleActivate(t) \/ Confirm(t)
                 \/ \E r \in Resource : HandleResourceAction(t, r)
      BY <2>p, <2>5 DEF HandleSave, HandleSync, HandleActivate, Confirm, HandleResourceAction, Page
    <2>6. CASE \E t \in Task, e \in Env : Open(e, t) \/ Follow(e, t)
      BY <2>6 DEF Open, Follow
    <2>7. CASE \E t \in Task : \/ Write(t) \/ Delete(t) \/ QueueSync(t) \/ Act(t)
                                \/ Refuse(t) \/ Answer(t)
      BY <2>7 DEF Write, Delete, QueueSync, Act, Refuse, Answer
    <2>8. CASE \E e \in Env : Elsewhere(e)
      BY <2>8 DEF Elsewhere
    <2>9. CASE UNCHANGED vars
      BY <2>9 DEF vars
    <2>10. CASE User
      BY <2>3, <2>4, <2>5, <2>6, <2>10 DEF User
    <2>11. CASE \E t \in Task : Proceed(t)
      BY <2>1, <2>2, <2>3, <2>7, <2>11 DEF Proceed
    <2> QED BY <1>1, <2>8, <2>9, <2>10, <2>11 DEF Next
  <1> QED BY <1>1, DetailInvariant, PTL DEF Spec, VisitShowsRoute

-----------------------------------------------------------------------------
(* What a handler names.  The page names the copy that it shows, and a handler *)
(* takes its id from the route: as long as the route stays under the page,     *)
(* these are the same estate.                                                  *)

Follows(t) == Live(t) => task[t].env = route

NamesIt(t) == task[t].kind \in Handler => task[t].named = task[t].env

NamedInv ==
  /\ Rendered => page.shown.env = route
  /\ \A t \in Task : Follows(t) /\ NamesIt(t)

LEMMA NoTaskNames == NoTask.kind = "none" /\ NoTask.kind \notin Handler
  <1>1. NoTask.kind = "none"
    BY DEF NoTask
  <1>2. "none" \notin Handler
    BY Zenon DEF Handler, Registrar
  <1> QED BY <1>1, <1>2

\* A task stays as it is in these respects, or gives up.
LEMMA NamedStays ==
  ASSUME NamedInv, UNCHANGED route, page'.shown = page.shown,
         \A t \in Task :
           \/ task'[t] = NoTask
           \/ task'[t].kind = task[t].kind /\ task'[t].env = task[t].env
                /\ task'[t].named = task[t].named /\ task'[t].live = task[t].live
  PROVE  NamedInv'
  BY NoTaskNames DEF NamedInv, Rendered, Follows, NamesIt, Live

\* A click: on a page that shows the estate of the route.
LEMMA NamedStarts ==
  ASSUME NamedInv, TypeOK, NEW t \in Task, NEW kind \in Handler, Start(t, kind), Rendered,
         page'.shown = page.shown
  PROVE  NamedInv'
  <1>1. /\ Started(kind).env = route /\ Started(kind).named = page.shown.env
        /\ Started(kind).env = Started(kind).named
    BY DEF Started, NoTask, NamedInv
  <1>2. task'[t] = Started(kind) /\ \A u \in Task \ {t} : task'[u] = task[u]
    BY DEF Start, TypeOK
  <1>3. route' = route
    BY DEF Start
  <1> QED BY <1>1, <1>2, <1>3 DEF NamedInv, Rendered, Follows, NamesIt, Live

LEMMA NamedEnds ==
  ASSUME NamedInv, TypeOK, page' = Fresh,
         \A u \in Task : task'[u] \in {NoTask, Unmounted(task[u])}
  PROVE  NamedInv'
  <1>1. \A u \in Task : \/ task'[u] = NoTask
                         \/ task'[u] = [task[u] EXCEPT !.live = FALSE]
    BY DEF Unmounted
  <1>2. \A u \in Task : task[u] \in TaskState
    BY DEF TypeOK
  <1>3. ASSUME NEW u \in Task
        PROVE  ~ Live(u)' /\ NamesIt(u)'
    <2>1. CASE task'[u] = NoTask
      BY <2>1 DEF Live, NamesIt, NoTask, Handler, Registrar
    <2>2. CASE task'[u] = [task[u] EXCEPT !.live = FALSE]
      BY <1>2, <2>2 DEF Live, NamesIt, NamedInv, TaskState
    <2> QED BY <1>1, <2>1, <2>2
  <1> QED BY <1>3 DEF NamedInv, Follows, Rendered, Fresh

LEMMA NamedNext ==
  ~ MayFollow /\ DetailInv /\ NamedInv /\ [Next]_vars => NamedInv'
  <1> SUFFICES ASSUME ~ MayFollow, DetailInv, NamedInv, [Next]_vars PROVE NamedInv'
    OBVIOUS
  <1>t. TypeOK /\ page \in Page /\ \A u \in Task : task[u] \in TaskState
    BY DEF DetailInv, TypeOK
  <1>1. CASE Leave
    BY <1>1, <1>t, NamedEnds DEF Leave
  <1>2. CASE Cancel \/ \E kind \in {"deactivate", "deregister"} : Ask(kind)
    BY <1>2, <1>t, NamedStays DEF Cancel, Ask, Page
  <1>3. ASSUME NEW t \in Task, NEW e \in Env, Open(e, t)
        PROVE  NamedInv'
    <2>1. task'[t] = Visit(e) /\ \A u \in Task \ {t} : task'[u] = task[u]
      BY <1>3, <1>t DEF Open, TypeOK
    <2>2. route' = e /\ page' = page /\ page = Fresh
      BY <1>3 DEF Open, DetailInv, PageInv
    <2>3. \A u \in Task : ~ Live(u)
      BY <1>3, DetailAssumption DEF Open, DetailInv, TaskInv, Live
    <2>4. Visit(e).env = e /\ Visit(e).kind \notin Handler
      BY DEF Visit, NoTask, Handler, Registrar
    <2> QED BY <2>1, <2>2, <2>3, <2>4 DEF NamedInv, Rendered, Fresh, Follows, NamesIt, Live
  <1>4. ASSUME NEW t \in Task, NEW e \in Env, Follow(e, t)
        PROVE  NamedInv'
    BY <1>4 DEF Follow
  <1>5. ASSUME NEW t \in Task, NEW kind \in {"save", "save and sync"}, HandleSave(t, kind)
        PROVE  NamedInv'
    BY <1>5, <1>t, NamedStarts DEF HandleSave, Reachable, Page, Handler, Registrar
  <1>6. ASSUME NEW t \in Task, HandleSync(t)
        PROVE  NamedInv'
    BY <1>6, <1>t, NamedStarts DEF HandleSync, Reachable, Page, Handler
  <1>7. ASSUME NEW t \in Task, HandleActivate(t)
        PROVE  NamedInv'
    BY <1>7, <1>t, NamedStarts DEF HandleActivate, Reachable, Page, Handler, Registrar
  <1>8. ASSUME NEW t \in Task, Confirm(t)
        PROVE  NamedInv'
    <2>1. Rendered /\ page.asking \in Handler
      BY <1>8, <1>t DEF Confirm, DetailInv, PageInv, Page, Handler, Registrar
    <2>2. page'.shown = page.shown
      BY <1>8, <1>t DEF Confirm, Page
    <2> QED BY <1>8, <1>t, <2>1, <2>2, NamedStarts DEF Confirm
  <1>9. ASSUME NEW t \in Task, NEW r \in Resource, HandleResourceAction(t, r)
        PROVE  NamedInv'
    BY <1>9, <1>t, NamedStarts DEF HandleResourceAction, Reachable, Page, Handler
  <1>10. ASSUME NEW t \in Task,
                Write(t) \/ Delete(t) \/ QueueSync(t) \/ Act(t) \/ Refuse(t) \/ Answer(t)
         PROVE  NamedInv'
    <2>1. UNCHANGED <<route, page>>
      BY <1>10 DEF Write, Delete, QueueSync, Act, Refuse, Answer
    <2>2. \/ \E to : task' = [task EXCEPT ![t].step = to]
          \/ \E read : task' = [task EXCEPT ![t].step = "got", ![t].read = read]
      BY <1>10 DEF Write, Delete, QueueSync, Act, Refuse, Answer, Goes
    <2>3. \A u \in Task : /\ task'[u].kind = task[u].kind /\ task'[u].env = task[u].env
                          /\ task'[u].named = task[u].named /\ task'[u].live = task[u].live
      BY <1>t, <2>2 DEF TypeOK, TaskState
    <2> QED BY <2>1, <2>3, NamedStays
  <1>11. ASSUME NEW t \in Task, Show(t) \/ Report(t)
         PROVE  NamedInv'
    <2>1. PICK new : /\ Settle(t, new)
                     /\ \/ task[t].step = "got"
                           /\ new = [Finished(task[t].kind) EXCEPT !.shown = task[t].read, !.failed = FALSE]
                        \/ new = [Finished(task[t].kind) EXCEPT !.failed = TRUE]
      BY <1>11 DEF Show, Report
    <2>2. \A u \in Task : task'[u] = NoTask \/ task'[u] = task[u]
      BY <1>t, <2>1 DEF Settle, TypeOK
    <2>3. route' = route /\ page' = IF task[t].live THEN new ELSE page
      BY <2>1 DEF Settle
    <2>4. CASE page'.shown = page.shown
      BY <2>2, <2>3, <2>4, NamedStays
    <2>5. CASE page'.shown # page.shown
      <3>1. task[t].live /\ page' = new
        BY <2>3, <2>5
      <3>2. task[t].read \in Copy
        BY <1>t DEF TaskState
      <3>3. task[t].step = "got" /\ page'.shown = task[t].read
        <4>1. [Finished(task[t].kind) EXCEPT !.failed = TRUE].shown = page.shown
          BY <1>t, FinishedTyped DEF Page
        <4>2. [Finished(task[t].kind) EXCEPT !.shown = task[t].read, !.failed = FALSE].shown = task[t].read
          BY <1>t, <3>2, FinishedTyped
        <4> QED BY <2>1, <2>5, <3>1, <4>1, <4>2
      <3>4. task[t].kind # "none" /\ task[t].read.env = task[t].env
        BY <3>3 DEF DetailInv, TaskInv
      <3>5. page'.shown.env = route
        BY <3>1, <3>3, <3>4 DEF NamedInv, Follows, Live
      <3>6. \A u \in Task : Follows(u)' /\ NamesIt(u)'
        BY <2>2, <2>3, NoTaskNames DEF NamedInv, Follows, NamesIt, Live
      <3> QED BY <2>3, <3>5, <3>6 DEF NamedInv
    <2> QED BY <2>4, <2>5
  <1>12. ASSUME NEW t \in Task, Deregistered(t)
         PROVE  NamedInv'
    BY <1>12, <1>t, NamedEnds DEF Deregistered
  <1>13. ASSUME NEW e \in Env, Elsewhere(e)
         PROVE  NamedInv'
    BY <1>13, NamedStays DEF Elsewhere
  <1>14. CASE UNCHANGED vars
    BY <1>14, NamedStays DEF vars
  <1> QED BY <1>1, <1>2, <1>3, <1>4, <1>5, <1>6, <1>7, <1>8, <1>9, <1>10, <1>11, <1>12, <1>13, <1>14
          DEF Next, User, Proceed

LEMMA NamedInit == Init => NamedInv
  BY NoTaskNames DEF Init, NamedInv, Rendered, Fresh, Follows, NamesIt, Live

\* What is removed is what the dialog named, as long as the route of the mounted
\* page does not change: it takes a link of the bell, Back or Forward to remove
\* another estate than the one that was confirmed (handleDeregister).
THEOREM RemovesNamed == ~ MayFollow => (Spec => []RemovesWhatWasNamed)
  <1> SUFFICES ASSUME ~ MayFollow PROVE Spec => []RemovesWhatWasNamed
    OBVIOUS
  <1>1. DetailInv /\ NamedInv /\ [Next]_vars => NamedInv'
    BY NamedNext
  <1>2. NamedInv => RemovesWhatWasNamed
    BY DEF NamedInv, NamesIt, RemovesWhatWasNamed, Handler, Registrar
  <1> QED BY <1>1, <1>2, NamedInit, DetailInvariant, PTL DEF Spec

=============================================================================
