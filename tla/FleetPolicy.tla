----------------------------- MODULE FleetPolicy -----------------------------
(***************************************************************************)
(* One policy over the fleet: what syncs, pushes and remediations make of  *)
(* its results and of the collected configuration they are judged on       *)
(* (backend/app/services/policies.py, remediation.py, collector.py, and    *)
(* the policy routes of backend/app/api/routes.py).                        *)
(*                                                                         *)
(* The policy wants a value of one controller setting, or the presence of  *)
(* one named resource.  A request loads policy and environments once, its  *)
(* session never reloads them, and it talks to controllers for as long as  *)
(* they take; a sync does the same for one environment.  The summary       *)
(* column holds a whole JSON document and is written as a whole.  Syncs of *)
(* one environment do not overlap here (SyncLock).                         *)
(***************************************************************************)
EXTENDS Integers, FiniteSets

CONSTANTS
  Env,            \* registered environments
  Request,        \* push and remediate requests of administrators
  Value,          \* values of the setting on a controller
  Wanted,         \* values the policy may want
  Missing,        \* the setting is not in the collected configuration
  Absent,         \* the value of a named resource that is not there
  Rules,          \* types of rules the policy may have
  Events,         \* what may go wrong or change outside
  MaxEvents       \* bound on their number in a behaviour

EventKind == {"drift",      \* somebody else changes the setting on a controller
              "policy",     \* the policy is edited, or switched off or on
              "delete",     \* an environment is deleted
              "upstream",   \* a controller does not answer, or refuses
              "database",   \* PostgreSQL refuses a transaction
              "sync",       \* a sync fails for reasons of its own
              "client"}     \* the API process dies

RuleKind == {"controller_setting", "named_resource_present"}

Setting == Value \cup {Missing}

ASSUME FleetPolicyAssumption ==
  /\ Missing \notin Value
  /\ Wanted \subseteq Value /\ Wanted # {}
  /\ Absent \in Value
  /\ Rules \subseteq RuleKind
  /\ "named_resource_present" \in Rules => Absent \notin Wanted
  /\ Events \subseteq EventKind
  /\ MaxEvents \in Nat

VARIABLES
  exists,    \* exists[e]: the environment row is there
  remote,    \* remote[e]: the setting on the controller of e
  rule,      \* the type of the policy's rule
  want,      \* the value the policy wants
  enabled,   \* whether the policy is enabled
  known,     \* known[e]: the setting in the summary column of e
  result,    \* result[e]: the PolicyResult row of e, "none" before it
  sync,      \* sync[e]: the sync of e
  req,       \* req[q]: the request q
  audit,     \* <<q, e, s>>: the ActionAudit of q for e with status s
  effects,   \* history, <<q, e>>: q changed the controller of e and knows it
  been,      \* history, been[e]: the values the controller of e has had
  conflicts, \* history, conflicts[e]: syncs of e lost to the unique key
  events     \* events so far

policy   == <<rule, want, enabled>>
rows     == <<exists, known, result, audit>>
history  == <<effects, been, conflicts>>
vars     == <<exists, remote, rule, want, enabled, known, result, sync, req, audit,
              effects, been, conflicts, events>>

Verdicts == {"compliant", "noncompliant", "unknown"}

IdleSync == [at |-> "idle", loaded |-> Missing, setting |-> Missing,
             verdict |-> "none", found |-> "none"]

SyncState ==
  [at : {"idle", "collecting", "collected", "judged"}, loaded : Setting, setting : Setting,
   verdict : Verdicts \cup {"none"}, found : Verdicts \cup {"none"}]

RequestState ==
  [at : {"idle", "refreshing", "remediating", "answered", "refused", "judged", "ended"},
   want : Wanted, todo : SUBSET Env, dirty : SUBSET Env, silent : SUBSET Env,
   on : SUBSET Env, loaded : [Env -> Setting], copy : [Env -> Setting],
   found : [Env -> Verdicts \cup {"none", "skipped"}]]

TypeOK ==
  /\ exists \in [Env -> BOOLEAN]
  /\ remote \in [Env -> Value]
  /\ rule \in Rules
  /\ want \in Wanted
  /\ enabled \in BOOLEAN
  /\ known \in [Env -> Setting]
  /\ result \in [Env -> Verdicts \cup {"none"}]
  /\ sync \in [Env -> SyncState]
  /\ req \in [Request -> RequestState]
  /\ audit \subseteq Request \X Env \X {"completed", "failed"}
  /\ effects \subseteq Request \X Env
  /\ been \in [Env -> SUBSET Value]
  /\ conflicts \in [Env -> Nat]
  /\ events \in 0 .. MaxEvents

Init ==
  /\ exists = [e \in Env |-> TRUE]
  /\ remote \in [Env -> Value]
  /\ rule \in Rules
  /\ want \in Wanted
  /\ enabled = TRUE
  /\ known = [e \in Env |-> Missing]
  /\ result = [e \in Env |-> "none"]
  /\ sync = [e \in Env |-> IdleSync]
  /\ req = [q \in Request |->
              [at |-> "idle", want |-> want, todo |-> {}, dirty |-> {}, silent |-> {},
               on |-> {}, loaded |-> [e \in Env |-> Missing],
               copy |-> [e \in Env |-> Missing], found |-> [e \in Env |-> "skipped"]]]
  /\ audit = {}
  /\ effects = {}
  /\ been = [e \in Env |-> {remote[e]}]
  /\ conflicts = [e \in Env |-> 0]
  /\ events = 0

Event(kind) == kind \in Events /\ events < MaxEvents /\ events' = events + 1

\* What the configuration of a silent controller says: a list without the named
\* resource, or no settings.
Blank == IF rule = "named_resource_present" THEN Absent ELSE Missing

\* Mutant: a setting nobody returned is left out of the judgement.
VerdictSkipping(wanted, setting) ==
  IF setting = Missing THEN "skipped"
  ELSE IF setting = wanted THEN "compliant" ELSE "noncompliant"

\* _evaluate_rule for controller_setting and named_resource_present.
Verdict(wanted, setting) ==
  IF setting = Missing THEN "unknown"
  ELSE IF setting = wanted THEN "compliant" ELSE "noncompliant"

\* What a column may hold after an UPDATE by a session that loaded `loaded`:
\* an equal document is not written.
Saves(new, loaded, current) == {new} \cup (IF new = loaded THEN {current} ELSE {})

----------------------------------------------------------------------------
(* A sync: it collects the configuration and evaluates every enabled policy  *)
(* in the transaction that ends it.                                          *)

SyncLoad(e) ==
  /\ sync[e].at = "idle" /\ exists[e]
  /\ sync' = [sync EXCEPT ![e].at = "collecting", ![e].loaded = known[e]]
  /\ UNCHANGED <<rows, remote, policy, req, history, events>>

\* A controller that does not answer yields an empty configuration, or none.
SyncCollect(e) ==
  /\ sync[e].at = "collecting"
  /\ \/ /\ sync' = [sync EXCEPT ![e].at = "collected", ![e].setting = remote[e]]
        /\ UNCHANGED events
     \/ /\ Event("upstream")
        /\ \E s \in {Blank, Missing} :
             sync' = [sync EXCEPT ![e].at = "collected", ![e].setting = s]
  /\ UNCHANGED <<rows, remote, policy, req, history>>

\* Mutant: the existing results are not looked up.
SyncJudgeBlind(e) ==
  /\ sync[e].at = "collected"
  /\ sync' = [sync EXCEPT ![e].at = "judged", ![e].found = "none",
                ![e].verdict = IF enabled THEN Verdict(want, sync[e].setting) ELSE "none"]
  /\ UNCHANGED <<rows, remote, policy, req, history, events>>

\* evaluate_policies: the enabled policies and the existing results are read.
SyncJudge(e) ==
  /\ sync[e].at = "collected"
  /\ sync' = [sync EXCEPT ![e].at = "judged", ![e].found = result[e],
                ![e].verdict = IF enabled THEN Verdict(want, sync[e].setting) ELSE "none"]
  /\ UNCHANGED <<rows, remote, policy, req, history, events>>

\* A row that was not there when the results were read is there now: the
\* insert violates the unique key of environment and policy.
Collides(e) == sync[e].verdict # "none" /\ sync[e].found = "none" /\ result[e] # "none"

\* Mutant: a result is inserted, never updated.
SyncCommitInserts(e) ==
  LET s == sync[e] IN
  /\ s.at = "judged" /\ exists[e] /\ ~Collides(e)
  /\ \E k \in Saves(s.setting, s.loaded, known[e]) : known' = [known EXCEPT ![e] = k]
  /\ result' = IF result[e] = "none" THEN [result EXCEPT ![e] = s.verdict] ELSE result
  /\ sync' = [sync EXCEPT ![e] = IdleSync]
  /\ UNCHANGED <<exists, remote, policy, req, audit, history, events>>

SyncCommit(e) ==
  LET s == sync[e] IN
  /\ s.at = "judged" /\ exists[e] /\ ~Collides(e)
  /\ \E k \in Saves(s.setting, s.loaded, known[e]) : known' = [known EXCEPT ![e] = k]
  /\ \E v \in IF s.verdict = "none" THEN {result[e]}
              ELSE Saves(s.verdict, s.found, result[e]) :
       result' = [result EXCEPT ![e] = v]
  /\ sync' = [sync EXCEPT ![e] = IdleSync]
  /\ UNCHANGED <<exists, remote, policy, req, audit, history, events>>

SyncCollides(e) ==
  /\ sync[e].at = "judged" /\ exists[e] /\ Collides(e)
  /\ sync' = [sync EXCEPT ![e] = IdleSync]
  /\ conflicts' = [conflicts EXCEPT ![e] = @ + 1]
  /\ UNCHANGED <<rows, remote, policy, req, effects, been, events>>

SyncFails(e) ==
  /\ sync[e].at # "idle"
  /\ \/ ~exists[e] /\ UNCHANGED events
     \/ Event("sync")
  /\ sync' = [sync EXCEPT ![e] = IdleSync]
  /\ UNCHANGED <<rows, remote, policy, req, history>>

----------------------------------------------------------------------------
(* Requests: push_policy (and create_policy with push_to_fleet) refreshes    *)
(* the configuration of every environment; remediate_policy writes to the    *)
(* controllers that do not comply.  Both then evaluate the fleet.            *)

\* The session's copies of policy and environments.
Begin(q, where) ==
  /\ req[q].at = "idle" /\ enabled
  /\ req' = [req EXCEPT ![q].at = where, ![q].want = want,
               ![q].todo = {e \in Env : exists[e]}, ![q].loaded = known, ![q].copy = known]
  /\ UNCHANGED <<rows, remote, policy, sync, history, events>>

BeginPush(q)        == Begin(q, "refreshing")
BeginRemediation(q) == Begin(q, "remediating")

\* collect_controller_config swallows what a controller does wrong and returns
\* what it got; only a connector that cannot be built raises.
Refresh(q, e) ==
  /\ req[q].at = "refreshing" /\ e \in req[q].todo
  /\ \/ /\ req' = [req EXCEPT ![q].todo = @ \ {e}, ![q].dirty = @ \cup {e},
                     ![q].copy[e] = remote[e]]
        /\ UNCHANGED events
     \/ /\ Event("upstream")
        /\ \/ req' = [req EXCEPT ![q].todo = @ \ {e}, ![q].dirty = @ \cup {e},
                        ![q].copy[e] = Blank, ![q].silent = @ \cup {e}]
           \/ req' = [req EXCEPT ![q].todo = @ \ {e}, ![q].silent = @ \cup {e}]
  /\ UNCHANGED <<rows, remote, policy, sync, history>>

Complies(q, e) == Verdict(req[q].want, req[q].copy[e]) = "compliant"

SkipCompliant(q, e) ==
  /\ req[q].at = "remediating" /\ e \in req[q].todo /\ Complies(q, e)
  /\ req' = [req EXCEPT ![q].todo = @ \ {e}]
  /\ UNCHANGED <<rows, remote, policy, sync, history, events>>

\* apply_config_remediation, as the request sees it end.
Answered(q, e) == req' = [req EXCEPT ![q].at = "answered", ![q].on = {e}]

Apply(q, e) ==
  /\ req[q].at = "remediating" /\ e \in req[q].todo /\ ~Complies(q, e)
  /\ remote' = [remote EXCEPT ![e] = req[q].want]
  /\ been' = [been EXCEPT ![e] = @ \cup {req[q].want}]
  /\ effects' = effects \cup {<<q, e>>}
  /\ Answered(q, e)
  /\ UNCHANGED <<rows, policy, sync, conflicts, events>>

\* HTTP 400 or 409 to the POST that creates a named resource is "exists".
ApplyRejected(q, e) ==
  /\ req[q].at = "remediating" /\ e \in req[q].todo /\ ~Complies(q, e)
  /\ rule = "named_resource_present" /\ Event("upstream")
  /\ Answered(q, e)
  /\ UNCHANGED <<rows, remote, policy, sync, history>>

\* An error, or no answer: the controller may have done it all the same.
ApplyRaises(q, e) ==
  /\ req[q].at = "remediating" /\ e \in req[q].todo /\ ~Complies(q, e)
  /\ Event("upstream")
  /\ \E v \in {remote[e], req[q].want} :
       /\ remote' = [remote EXCEPT ![e] = v]
       /\ been' = [been EXCEPT ![e] = @ \cup {v}]
  /\ req' = [req EXCEPT ![q].at = "refused", ![q].on = {e}]
  /\ UNCHANGED <<rows, policy, sync, effects, conflicts>>

\* The pending summaries of a session, written by its next commit.
Flushed(q, k) ==
  /\ k \in [Env -> Setting]
  /\ \A e \in Env :
       k[e] \in IF e \in req[q].dirty /\ exists[e]
                THEN Saves(req[q].copy[e], req[q].loaded[e], known[e]) ELSE {known[e]}

\* The UPDATE of a row that is gone fails; no UPDATE, no failure.
Savable(q, also) ==
  \A e \in req[q].dirty \cup also :
    exists[e] \/ (e \notin also /\ req[q].copy[e] = req[q].loaded[e])

Vanished(q, also) == \E e \in req[q].dirty \cup also : ~exists[e]

\* Mutant: a remediation is remembered before its outcome is looked at.
RecordActionHopes(q) ==
  /\ req[q].at \in {"answered", "refused"} /\ Savable(q, req[q].on)
  /\ \E k \in [Env -> Setting] : Flushed(q, k) /\ known' = k
  /\ audit' = audit \cup
       {<<q, e, IF req[q].at = "answered" THEN "completed" ELSE "failed">> : e \in req[q].on}
  /\ LET done == req[q].on IN
     req' = [req EXCEPT ![q].at = "remediating", ![q].todo = @ \ req[q].on, ![q].on = {},
               ![q].dirty = done, ![q].loaded = req[q].copy,
               ![q].copy = [e \in Env |-> IF e \in done THEN req[q].want ELSE @[e]]]
  /\ UNCHANGED <<exists, remote, result, policy, sync, history, events>>

\* record_action commits the audit with whatever the session has pending; only
\* then is the remediation remembered, in the session's copy.
RecordAction(q) ==
  /\ req[q].at \in {"answered", "refused"} /\ Savable(q, req[q].on)
  /\ \E k \in [Env -> Setting] : Flushed(q, k) /\ known' = k
  /\ audit' = audit \cup
       {<<q, e, IF req[q].at = "answered" THEN "completed" ELSE "failed">> : e \in req[q].on}
  /\ LET done == IF req[q].at = "answered" THEN req[q].on ELSE {} IN
     req' = [req EXCEPT ![q].at = "remediating", ![q].todo = @ \ req[q].on, ![q].on = {},
               ![q].dirty = done, ![q].loaded = req[q].copy,
               ![q].copy = [e \in Env |-> IF e \in done THEN req[q].want ELSE @[e]]]
  /\ UNCHANGED <<exists, remote, result, policy, sync, history, events>>

\* evaluate_fleet judges the session's copies, by the session's policy.
JudgeFleet(q) ==
  /\ req[q].at \in {"refreshing", "remediating"} /\ req[q].todo = {}
  /\ IF enabled
     THEN req' = [req EXCEPT ![q].at = "judged",
                    ![q].found = [e \in Env |-> IF exists[e] THEN result[e] ELSE "skipped"]]
     ELSE req' = [req EXCEPT ![q].at = "ended"]
  /\ UNCHANGED <<rows, remote, policy, sync, history, events>>

Judged(q) == {e \in Env : req[q].found[e] # "skipped"}

Clashes(q) == \E e \in Judged(q) : req[q].found[e] = "none" /\ result[e] # "none"

Publish(q) ==
  /\ req[q].at = "judged" /\ Savable(q, Judged(q)) /\ ~Clashes(q)
  /\ \E k \in [Env -> Setting] : Flushed(q, k) /\ known' = k
  /\ \E r \in [Env -> Verdicts \cup {"none"}] :
       /\ \A e \in Env :
            r[e] \in IF e \in Judged(q)
                     THEN Saves(Verdict(req[q].want, req[q].copy[e]), req[q].found[e], result[e])
                     ELSE {result[e]}
       /\ result' = r
  /\ req' = [req EXCEPT ![q].at = "ended"]
  /\ UNCHANGED <<exists, remote, policy, sync, audit, history, events>>

\* A commit that cannot be: the exception ends the request, since the handler
\* of remediate_fleet meets a session that needs a rollback.  A connector that
\* cannot be built raises outside of its try.
RequestFails(q) ==
  /\ \/ /\ req[q].at = "judged" /\ (Clashes(q) \/ Vanished(q, Judged(q)))
        /\ UNCHANGED events
     \/ req[q].at \in {"answered", "refused"} /\ Vanished(q, req[q].on) /\ UNCHANGED events
     \/ req[q].at \in {"answered", "refused", "judged"} /\ Event("database")
     \/ req[q].at = "remediating" /\ req[q].todo # {} /\ Event("upstream")
  /\ req' = [req EXCEPT ![q].at = "ended"]
  /\ UNCHANGED <<rows, remote, policy, sync, history>>

ClientDies(q) ==
  /\ req[q].at \notin {"idle", "ended"} /\ Event("client")
  /\ req' = [req EXCEPT ![q].at = "ended"]
  /\ UNCHANGED <<rows, remote, policy, sync, history>>

----------------------------------------------------------------------------
(* Administrators, and the world. *)

UpdatePolicy ==
  /\ Event("policy")
  /\ \/ \E w \in Wanted \ {want} : want' = w /\ UNCHANGED enabled
     \/ enabled' = ~enabled /\ UNCHANGED want
  /\ UNCHANGED <<rows, rule, remote, sync, req, history>>

DeleteEnvironment(e) ==
  /\ exists[e] /\ Event("delete")
  /\ exists' = [exists EXCEPT ![e] = FALSE]
  /\ known' = [known EXCEPT ![e] = Missing]
  /\ result' = [result EXCEPT ![e] = "none"]
  /\ audit' = {a \in audit : a[2] # e}
  /\ UNCHANGED <<remote, policy, sync, req, history>>

Drift(e) ==
  /\ Event("drift")
  /\ \E v \in Value \ {remote[e]} :
       /\ remote' = [remote EXCEPT ![e] = v]
       /\ been' = [been EXCEPT ![e] = @ \cup {v}]
  /\ UNCHANGED <<rows, policy, sync, req, effects, conflicts>>

Next ==
  \/ \E e \in Env :
       \/ SyncLoad(e) \/ SyncCollect(e) \/ SyncJudge(e) \/ SyncCommit(e)
       \/ SyncCollides(e) \/ SyncFails(e) \/ DeleteEnvironment(e) \/ Drift(e)
  \/ \E q \in Request :
       \/ BeginPush(q) \/ BeginRemediation(q) \/ RecordAction(q) \/ JudgeFleet(q)
       \/ Publish(q) \/ RequestFails(q) \/ ClientDies(q)
       \/ \E e \in Env : Refresh(q, e) \/ SkipCompliant(q, e) \/ Apply(q, e)
                         \/ ApplyRejected(q, e) \/ ApplyRaises(q, e)
  \/ UpdatePolicy

Spec == Init /\ [][Next]_vars

----------------------------------------------------------------------------
(* Properties. *)

\* A healthy sync that is lost to the unique key (and marks its estate
\* critical) is lost to the first result of the policy: it happens once.
ConflictOnce == \A e \in Env : conflicts[e] <= 1

\* The hub shows a setting only if the controller has had it.  (Of a named
\* resource it may show more: HTTP 400 is taken for its existence.)
KnownWasReal ==
  rule = "controller_setting" => \A e \in Env : known[e] \in been[e] \cup {Missing}

\* A change the hub made on a controller, and knows of, is on record.
EffectsAudited ==
  \A q \in Request, e \in Env :
    <<q, e>> \in effects =>
      \/ req[q].at = "answered" /\ e \in req[q].on
      \/ <<q, e, "completed">> \in audit
      \/ ~exists[e]

\* What an administrator is told of an environment whose live query failed:
\* the snapshot that was collected last has been used, and is kept.
SilentKeepsSnapshot ==
  [][\A q \in Request :
       req[q].at = "judged" /\ req'[q].at = "ended" =>
         \A e \in req[q].silent : known'[e] \in {known[e], req[q].loaded[e]}]_vars

Fairness ==
  /\ \A e \in Env :
       WF_vars(SyncLoad(e) \/ SyncCollect(e) \/ SyncJudge(e)
               \/ SyncCommit(e) \/ SyncCollides(e) \/ SyncFails(e))
  /\ \A q \in Request :
       WF_vars(RecordAction(q) \/ JudgeFleet(q) \/ Publish(q) \/ RequestFails(q)
               \/ \E e \in Env : Refresh(q, e) \/ SkipCompliant(q, e) \/ Apply(q, e))

FairSpec == Spec /\ Fairness

\* Syncs heal: whatever stale copies were committed, once nobody interferes the
\* hub comes to know every controller as it is and to judge it by the policy.
EventuallyAgrees ==
  \A e \in Env : <>[](exists[e] => /\ known[e] = remote[e]
                                   /\ enabled => result[e] = Verdict(want, known[e]))
=============================================================================
