# A TLA+ model of the Ansible fleet hub

The hub registers remote Ansible Automation Platform and Orchestrator estates,
collects their state periodically, judges their health and their policies, and
lets operators act on them. It is a FastAPI process, a scheduler, an RQ worker,
PostgreSQL, Redis and a React interface. This directory holds TLA+ modules of
the parts that coordinate, the TLC configurations that check them, and theorems
about them that TLAPS proves.

    tlc -config SyncLock_timely.cfg MCSyncLock.tla       one run
    tlapm SyncLockProofs.tla                             the proofs of a module

`PROJECT.json` lists components, runs, the source lines of every definition,
the mutants that show each property can fail, the hazards and the theorems.

## Inventory

| component | state it keeps | operations | what is hard |
|---|---|---|---|
| sync lock, queue, scheduler (`collector.py`, `scheduler.py`, `worker.py`) | a Redis key per environment with an expiry, the RQ list, the job on a worker, `last_synced_at` | request by API or scheduler pass, enqueue, dequeue, run, release | clocks, crashes between two commands, lost replies, an unlock without owner |
| sync pipeline (`collector.py`, `models.py`) | environment row, execution, health samples, fleet alerts, inventory | `run_environment_sync`, `record_fleet_signal`, acknowledge, delete | rows read minutes before they are written, check then insert, partial failure |
| policy engine (`policies.py`, `pages/policies.tsx`, `policy-form.tsx`) | definitions, one result per environment and policy | seed, create, toggle, evaluate one, evaluate fleet | two evaluators on one unique key, results nobody removes, what the form promised |
| remediation (`remediation.py`, `platform_config.py`) | remembered outcome in the summary document, audits | push or remediate a policy | read-modify-write against a sync, remote effect before the record |
| connector (`connectors.py`) | none | collect, judge, list jobs, execute action | fallback over candidate paths, partial failure of services, the score |
| environment page, operator actions (`environment-detail.tsx`, `routes.py`) | the loaded environment, busy flags, a dialog; audits | load, save, sync, activate, deactivate, de-register, act on a resource | the id changes under the mounted page, one flag of five handlers |
| fleet jobs (`jobs.py`, `pages/jobs.tsx`) | jobs, approvals and a filter on screen | poll, filter, cancel, decide | overlapping answers of old filters and old decisions |
| alert bell (`layout.tsx`) | the alerts on screen | poll, dismiss | polls that overtake each other and dismissals |
| sessions (`security.py`, `passwords.py`, `auth_routes.py`, `auth.tsx`, `login.tsx`, `account.tsx`) | cookies, `sessions_valid_after`, provider rows | login, logout, password change, disable, who am I | second granular stamps, revocation, the check of the mount |
| access control (`access.py`, `identity.py`, `auth_routes.py`, `pages/access.tsx`) | users, groups, memberships, assignments, identity providers | assign, remove, create, register and remove estates, save a provider, map external groups | delegates of delegates, requests decided by profiles that have become old |
| hub preferences (`hub_preferences.py`, `pages/settings.tsx`) | one row, the form and the table of intervals | create on first use, update, apply to the fleet | check then insert by three processes, answers that replace edits |
| estate registration (`environment-form.tsx`, `pages/environments.tsx`, `routes.py`, `schemas.py`) | the row with its secrets, the form | create, edit, normalise, sync after it | a write, a sync and a load that fail one by one; blank fields that keep secrets |
| read models (`dashboard.py`, `monitoring.py`, `health.py`, `search.py`, `monitoring.ts`, `topology.tsx`) | none; a selection and an address on screen | queries, findings, the choice of a topology | rules kept twice, two queries around a commit, late answers |
| interface (`app.tsx`, `api.ts`) | the route | navigation, calls | one page replaces another |

The processes meet in three places. The API and the scheduler both call
`enqueue_sync`, which sets the environment's key in Redis and appends to the RQ
list; the worker takes from that list and deletes the key. The worker, the API
and the scheduler share the PostgreSQL rows, each in short transactions at READ
COMMITTED, through sessions that neither autoflush nor expire on commit. Remote
estates are reached by the worker (collection) and the API (actions, live jobs,
remediation). The interface reaches all of it through the API only: its pages
keep copies, and every `await` is a place where the hub, or the page, moves on.

What makes each component correct: syncs of an environment do not overlap, and
no failure leaves it locked or unsynced for ever (lock); status, history, error
and alerts of an environment tell the same story, one alert per outage
(pipeline); an evaluation never fails a healthy sync twice, and what the hub
shows of a controller was real and comes to be current (policies); every change
is audited (remediation); an estate that warns or is critical has a finding, and
is critical only when a collection failed (connector); a page changes the estate it
names and never stays locked (environment page); lists that refresh themselves
come to agree with the hub (bell, jobs); no session outlives its revocation but
for a second (sessions); every role is the end of a chain of grants that somebody
entitled began (access); saved preferences are not undone (preferences); a sync uses
the credential given last and a form that closes tells the truth (registration).

## Modules

The hub:

* `SingleFlight`: the promise of the lock. A flight of an environment starts
  when none is in the air, and lands.
* `SyncLock`: how `collector.py`, `scheduler.py` and `worker.py` keep it. A job
  slot goes through `apiLocked` or `schedulerLocked` (between SET NX and the
  enqueue), `queued`, `started` (before the first commit), `running`, `failing`
  (in the except clause), `releasing` (in the finally clause). `left` is the
  time left of the phase's deadline; `Tick` moves the clock and cannot pass a
  deadline. The key counts down from the SET NX, the job's deadline from the
  dequeue, as in the code. `pass` is what the scheduler read and still works on.
  Failures: a client dies between two commands, a lost reply of the enqueue,
  Redis refusing, PostgreSQL refusing, a dead work-horse. `Timely` is the
  condition on the constants under which the lock does its job; the shipped
  values do not meet it.
* `AlertPromise`: what `docs/architecture.md` promises of alerts, per
  environment: quiet, open, dismissed.
* `SyncPipeline`: what a sync writes. A run loads the row (`seen`), collects,
  decides (`plan`, from the status it loaded and the open alerts of now) and
  commits; a failure rolls back, loads the row afresh, decides and commits.
  `Written` is SQLAlchemy's UPDATE: a column goes in only when it differs from
  what the session loaded. A run stands for its execution and for the alert it
  may open. `LockExpires` frees a key; with `MayLapse` also under a live run.
* `FleetPolicy`: one remediable policy over the fleet, about a setting or a
  named resource (`rule`). A request (`push_policy`, `create_policy` with
  `push_to_fleet`, `remediate_policy`) keeps the copies its session loaded
  (`copy`, with `loaded` what the last commit of the session left, and `dirty`
  the summaries not yet written), talks to one controller after the other, and
  publishes its verdicts on the copies. A sync collects, judges and commits
  beside it. `Saves` is SQLAlchemy's UPDATE again: a document equal to the
  loaded one may stay unwritten. `Collides` and `Clashes` are the unique key of
  results, `Savable` a commit that finds all its rows. `effects`, `been` and
  `conflicts` are history variables of the properties. `Missing` is a setting
  that is not in the summary; `Blank` is what the empty configuration of a
  silent controller says, which for a setting is `Missing` and for a named
  resource that it is absent.

The interface. A page is a record of what the component holds (`screen`, or
`page`), the rows it is about (`hub`), and the runs of its handlers (`calls`, or
`task`), each at one of its awaits; a click, the hub's work, and what follows an
answer are actions of their own. Names follow the handlers.

* `EnvironmentDetail`: the page of one estate. `Follow` changes the id under the
  mounted page, `Leave` unmounts it; a handler keeps the id of the render it was
  clicked in (`env`) and the name that was on screen (`named`).
* `AlertBell`: polls that do not wait for each other, dismissals shown before a
  poll confirms them, alerts raised and cleared.
* `JobsPage`: the 15-second interval, the filter, cancel and decide.
* `PolicyPage`: what the form sends (`Scope`, `BuildRule`), who evaluates
  (`Collected`, `Evaluate`), and what is shown.
* `SettingsPage`: the preferences row created on first use by any process
  (`LookUp`, `Insert`), the form, the change of every estate, the table.
* `SignIn`: one account in several browsers. A token is its second and, as
  history, how often sessions had been ended; `StillValid` compares seconds. The
  stamp and the commit of `update_user` are one step: a login in between is not
  in the model.
* `AccessPage`: accounts, role assignments with delegation by estate, and the page
  of any account. A request of the page loads its profile (`Authorize`, which
  leaves `may`) and commits later (`Serve`); between the two, other accounts
  assign and remove, register estates, which makes each the administrator of its
  own, and remove them with their assignments (`Elsewhere`, each in one step by
  the roles of the moment). The list of estates on the page may be older than
  that. `grants` is history: who gave which role, and when; nothing is ever taken
  from it.
* `TopologyPage`: three effects that follow each other, as one step
  (`Selects`), and late lists of estates.
* `FleetHealth`: `Reasons`, `Score`, `Judged` of the collector against `Explain`,
  `Findings`, `Bar` of the pages; two queries with a sync between them. A sync
  that fails leaves an error text that may be empty (`str(exc)` of a token that
  no longer decrypts), which the pages take for no error. A finding is its title:
  the reason below it, stored by the collector or the page's own, is left out.
* `Registration`: the form in its two places, its payload, `Normalized`,
  `Edited`, and the sync and load that follow a write.
* `Console`: the interface as the sum of these pages. `route` says which one is
  in front; a page keeps its state to itself and starts anew when it is opened,
  so a behaviour is that of one page with its part of the hub.

* `MCSyncLock`, `MCSyncPipeline`, `MCFleetPolicy`, `MCEnvironmentDetail`: values
  for constants.
* `SyncLockProofs`, `SyncPipelineProofs`, `FleetPolicyProofs`,
  `EnvironmentDetailProofs`, `ConsoleProofs`: theorems.

Operators named as mutants in a comment are used by no specification; each is a
plausible bug of the definition after it, and shows that a property notices.

## Runs

| run | question | bounds |
|---|---|---|
| `lock_timely` | do syncs of an environment never overlap, and does the key outlive the job, when the deadlines are timely? Does the protocol implement `SingleFlight`? | 2 environments, 3 slots (symmetric), 2 workers, one failure |
| `lock_lapse` | is every key eventually free and every due environment eventually attempted, even when keys expire under live jobs? | 1 environment, 3 slots, 2 failures of any kind |
| `lock_defaults` | is "already in progress" true with the shipped proportions? It is not | 1 environment, no failure |
| `pipeline_locked` | do rows, history, errors and alerts agree, and is `AlertPromise` kept, when the lock serialises? | 2 environments, 3 runs, 2 workers, all failures |
| `pipeline_live` | does every execution settle? | 1 environment, 3 overlapping runs |
| `policy_setting` | is a healthy sync lost to the unique key once at most, is only what a controller has had shown, do syncs repair what stale copies did? | 1 environment, 2 requests, one event of any kind, a setting or a named resource |
| `policy_silent` | does a push keep the snapshot of a silent controller? It does not | 1 environment, 1 request |
| `policy_unaudited` | is every effect audited? Not when an environment is deleted meanwhile | 2 environments, 1 request |
| `detail_page` | does `busy` belong to one handler, is it always released, do overtaken loads never land, does loading end? | 2 environments, one deactivated, 2 handlers at a time, one change of a registration |
| `detail_named` | is what is removed what the dialog named? Not after the id changed under the page | as above, calls may fail |
| `console` | what every other page shows, sends and keeps, against its part of the hub | 1 alert, 2 polls, 2 filters, 2 estates, 3 users, 1 browser, `Bound` = 2 |
| `policy_created` | does a policy wait to be enabled? It does not | 1 call |

Why the bounds are enough. Overlap takes two jobs of one environment; a third
slot lets a job lose its key to a second while a third is accepted. An alert's
life takes three runs: one that opens it, one that clears it, one that opens
the next. Two environments show that rows and keys do not mix. Time is scaled:
only the order of deadlines matters, so a deadline of 1 against a time to live
of 4 stands for minutes. `MaxFaults` bounds failures in a behaviour, `Run` the
requests of one. A policy race has one request and one sync of an environment;
the second request is there for stale copies of stale copies, and two
environments, in `policy_unaudited`, for commits that carry another's pending
summary. `MaxEvents` bounds what happens outside of the hub. On a page, an
answer is overtaken by one other answer or click: two calls, three lists of
estates (an address without query starts with two), two values. Two revocations
of sessions are needed for a session that is older than both; two saves for a
token that is left blank after it was given. A chain of grants has the first
registration and two changes: a delegate of the creator who delegates further,
or a second estate and a grant on it. `Failed` = {4, 5} lies on both
sides of the threshold. `RuleType` has one type for any product and one
that only one product can have, of which one can be remediated.

`policy_setting` has one event from outside in a behaviour: drift, a policy
switched off or on, or a failure. With two events, or a second value that the
policy may come to want, the run is too long; so `EventuallyAgrees` is not checked
for a policy whose value is edited under way. The theorems have both.

In `detail_page`, calls are refused only because the registration is gone or is
not managed (`MayFail` = FALSE), which the code guarantees to be reported;
`detail_named` has failures of any kind, and the theorems about
`EnvironmentDetail` hold for both.

Deadlock is not checked where the system may stop: `SyncPipeline` when its runs
are used up, `FleetPolicy` when every environment is deleted, and a page of
`Console` when its bounds are used up and nobody clicks. `SyncLock` and
`EnvironmentDetail` never stop.

Fairness. RQ and the scheduler loop keep working (`WF` on the dequeue, the
fleet read and each step of a job) and time passes (`WF` on `Tick`). Requests
of users and failures are free not to happen. `Handle`, the scheduler's step
for an environment, has `SF`: the RQ list is unbounded, so the model's lack of a
slot at a moment must not starve it for ever. In `FleetPolicy` the scheduler
keeps syncing (`WF` on each environment's sync) and a request that has begun
goes on (`WF` per request); nobody has to begin one. In `EnvironmentDetail`
calls are answered or fail and promises are resolved (`WF` on each task).
In `Console` the intervals of the bell and of the jobs page fire and every call
of theirs ends, with an answer or a failure (`WF`); and of the answers to the
interval some are good (`SF`), without which a page that only ever fails would
have nothing to show. In `JobsPage` the calls of the interval do not overlap
one another: 15 seconds are taken to be longer than a request, as far as the
interval's own requests are concerned; clicks and changes of the filter overlap
them and each other freely.

The five violations are disagreements between the code and what it, its
messages or the documentation say, listed under `findings`. Those of the lock
need time or a second worker: `deploy/` runs one worker, and the theorems about
`SyncPipeline` show that this worker alone makes the alerts correct. A snapshot
that a push has emptied comes back with the next sync (`EventuallyAgrees`); an
audit that is missing does not.

## Proofs

For every value of the constants, from the assumptions of the modules
(`ConstantsAssumption`, `PipelineAssumption`, `FleetPolicyAssumption`,
`DetailAssumption`, `ConsoleAssumption`):

* `SyncLock`: type correctness; `QueueHoldsQueued`, whatever fails; `Timely`
  implies that flights never overlap and that the protocol implements
  `SingleFlight`. `AtMostOneFlight` is not inductive: that no second request is
  accepted follows from the key being there, which follows from how much time it
  has left. The strengthening is `LockOutlivesJob`: the key of an outstanding
  job has more time left than `Budget`, the sum of the deadlines still ahead of
  the job. A tick takes one from both sides and every phase change spends a
  deadline it no longer needs. Two consequences are counted out: the outstanding
  requests map one to one into the environments, so that the list of RQ is no
  longer than the fleet (`QueueNoLongerThanFleet`), and as many slots as
  environments never withhold one from an environment whose key is free
  (`SlotsSuffice`): a run with that many slots, as `lock_timely`, loses no
  behaviour to their number.
* `SyncPipeline`: type correctness; `Serial` (one worker, or keys that outlive
  their jobs) implies the five invariants and `KeepsAlertPromise`. First,
  `AloneInv`: either the key of every pending run is set, or the single worker
  has one run, so no environment has two busy runs. Then `SignalInv` and
  `RunInv` together: what a deciding run loaded is still the row, and its
  uncommitted decision fits the alerts of now (`PlanFits`) although users
  acknowledge and delete meanwhile. A commit then takes the view of
  `AlertPromise` one legal step. None of the five invariants holds without
  `Serial`: with two workers and keys that lapse, TLC finds a counterexample to
  each. The pipeline has a flag for the key, where `SyncLock` has its time:
  `RunsKeepPromise` shows that without lapses its runs implement `SingleFlight`
  too, which is what `LockKeepsPromise` proves of the protocol with its time:
  flag and key keep the same promise.
* `FleetPolicy`: type correctness; `ConflictOnce` with `ConflictInv` (after a
  collision there is a result, and no sync in progress was judged on the lack of
  one); `KnownWasReal` with `RealInv` (the copies of all sessions, and the value
  of an answered remediation, are values the controller has had), which needs
  controllers to be `Honest` (the rule is about a setting, or no controller is
  silent or refuses), and the fact that nothing changes the type of a rule. The
  same invariant gives `AnsweredIsReal`: when controllers answer, nothing is
  made up of named resources either. `SyncsKeepConsistent`: with neither
  requests nor changes of the policy, the verdict shown is that of the
  configuration shown, whatever drifts, fails or is deleted. Its invariant
  (`OwnInv`) is that a sync holds the row as it is and a verdict of what it
  collected: an UPDATE that is left out because the document is equal is then
  one that would change nothing. Pushes and remediations lack just that.
  `EffectsAudited`, which `policy_unaudited` refutes, is proved for behaviours
  where no environment is deleted, no transaction refused and no client dies
  (`Undisturbed`).
* `EnvironmentDetail`: type correctness, `BusyMeansOne`, `VisitShowsRoute`, from
  `DetailInv`; and `RemovesNamed`: `RemovesWhatWasNamed`, which `detail_named`
  refutes, holds of a page that is not followed to another environment while it
  is mounted (`MayFollow` = FALSE, what a `key` on the route would give). Its
  invariant `NamedInv` is that whatever the page holds is of its route.
  `BusyMeansOne` says that the flag is set exactly as long as a handler of the
  mounted page runs. It needs `PageInv`, that a dialog is open only over a page
  that is not busy, because the dialog's confirmation does not look at the flag;
  and `TaskInv`, that handlers live only while there is a page, and loads of the
  effect are of the route.
* `Console`: from `ConsoleInv`, which has one invariant per page, fourteen
  theorems. Each invariant says what the calls under way may still bring: that
  an answer which calls an alert acknowledged was given when it was on record
  (`BellInv`); that a form is set once, and no remediation passes its check
  without its consent (`PolicyInv`); that answers to a save still equal the
  form, because it is locked meanwhile (`SettingsInv`); that a session of the
  present revision is no older than the last end of sessions (`SignInInv`); that
  the profile of a request under way says no more than its account was granted
  once (`AccessInv`; grants are never forgotten, so removals between profile and
  commit change nothing); that at most one topology, of the selection, is on its way
  (`TopologyInv`); that nothing was given before there is a row, that the form
  of the settings has the kind of the row, and that a submission past its sync
  has queued it (`RegistrationInv`); that the jobs page calls no job over that
  still runs, since a job that is over stays over and an answer was true when it
  was given (`JobsInv`); that every snapshot is one its collector can write, and
  the estate's status, score and error are of one collection of them, or of a sync
  that failed (`HealthInv`). The score is an average rounded down: there are four services
  at most, so it is computed by counting how many are healthy, warn or are
  critical, and that a score below 100 needs a warning or a failure, and one
  below 70 a failure, is a lemma (`ScoreTells`).

Only model-checked: liveness (`LockEventuallyFree`, `DueEventuallyAttempted`,
`ExecutionSettles`, `EventuallyAgrees`, `LoadingEnds`, `BusyClears`,
`BellSettles`, `JobsPageSettles`), which is out of the prover's reach. Every
invariant and every action property of a run that passes is also a theorem,
under the conditions named above. That the definitions agree with the code no
tool shows; `map` is there to review it.

## Seen in the code, and in no run

These are consequences of the code that the models have, or that were met while
reading it. None has a run of its own. Two are at odds with a text: that of a sync
without a text with `components/monitoring-findings.tsx:59`, that of a role on a
removed estate with `docs/authentication.md:78`.

* Remediation publishes its verdict on the copy it loaded, also over the verdict
  of a later sync; the next sync repairs it.
* With two workers and a key that expires, two runs may open two alerts, of
  which one stays open after the recovery.
* Late reloads on the pages of policies and of access replace newer lists; so do
  rows of the table of intervals and their drafts after "apply to all".
* A late list of estates makes the topology jump back to an earlier choice, and
  no answer takes its error away.
* A late answer of the hub preferences replaces an interval typed in the form of
  a new estate.
* The settings form of an estate sends every field, so that of two editors the
  later one undoes the other; a stored secret can be replaced and never removed;
  the client ID of an Orchestrator estate cannot be changed.
* When the write of a new estate succeeds and its sync is refused, the form says
  that it failed, and a second submission is refused because the name is taken.
* The list of estates draws its bars at 80 and 50, everything else at 85 and 60.
* An answer to a password change that arrives after Log out brings the session
  back, and a login that was checked against the old password before a change is
  given a valid session.
* A sync that cannot decrypt the stored token, as after a change of
  `AAM_SECRET_KEY`, fails with an exception without a text: the estate is
  critical, `last_sync_error` is empty, no page shows an error or a finding, and
  the monitoring page says that there are no warnings on the latest sync.
  `WarningsAreExplained` shows that an estate is left unexplained in no other way.
* A role that is assigned from a page with an old list of estates, after the
  estate was removed, stays in the table: its estate is not looked up. It opens
  nothing, as the id of an estate is never used again.
* Configuration keys of an identity provider that contain "secret" are hidden by
  the directory and dropped by the next save.
* Monitoring reads environments and snapshots by two queries; a sync between
  them makes a page of two collections. The properties of `FleetHealth` are
  claimed of the other pages only.

## Not modelled

* Results of policies that are disabled or no longer apply: they stay, and
  nothing says what they should mean.
* The default policies, roles and groups written at start, and the mapping of
  external groups at login. Logins at external providers end in the same cookie
  as local ones and are exchanges with services outside.
* The audit of an operator action (`execute_action` in `routes.py`); remediations
  have the same order of effect and record, which `EffectsAudited` is about.
* Identity providers: rows that a system administrator creates, edits and removes
  as a whole. An edit with a blank secret keeps the stored one.
* Changes of the groups of an account, which no page offers, and assignments of
  the hub's roles "user" and "auditor", which say nothing about access.
* Capabilities, footprint and metadata of a registration, the sanitising of
  platform configuration, the normalising of job statuses and the rollups: data
  without rules that relate them to other state.
* Search, activity, charts, layout: queries shown as they come.
* HTTP exchanges with estates (their outcomes are enumerated), migrations,
  process start, deployment manifests.

## Plan

Done, in this order: the lock and its promise; the pipeline and the promise of
alerts; one policy over the fleet; the page of one estate; the other pages with
their part of the hub, and their sum. What would come next:

1. Several policies, with results of policies that are switched off.
2. Group memberships and external groups in `AccessPage`, for the last
   administrator; two users of the page at once.
3. Seeds at start: check then insert by the API and the scheduler, as in
   `SettingsPage`.
4. A wait bound for the queue. `QueueNoLongerThanFleet` bounds its length; with
   the time each job may take, `MaxWait` in `Timely` could be discharged.
5. What requests leave behind in `FleetPolicy`: for how long a verdict and the
   configuration on show may disagree.
