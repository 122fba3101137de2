----------------------------- MODULE FleetHealth -----------------------------
(***************************************************************************)
(* What the hub says about the health of an estate: the collector judges   *)
(* each service and the estate (backend/app/services/connectors.py), and   *)
(* the pages explain the result, by rules of their own                     *)
(* (frontend/src/monitoring.ts, pages/monitoring.tsx, pages/dashboard.tsx).*)
(*                                                                         *)
(* A summary is abstracted to what both sides look at, in three counters.  *)
(* One estate is collected until its page is open; a page never reloads.   *)
(***************************************************************************)
EXTENDS Integers, FiniteSets

CONSTANTS
  Failed,     \* counts of recent failed jobs and executions
  MaxSyncs    \* bound on the syncs of a behaviour

VARIABLES
  hub,      \* the managed_environments row and the service_snapshots
  screen,   \* what the page holds
  calls     \* the request of the page, and whether no sync came between its queries

healthVars == <<hub, screen, calls>>

ServicesOf(kind) == IF kind = "aap" THEN {"gateway", "controller", "eda", "hub"} ELSE {"orchestrator"}

\* failed: recent failed jobs or executions; broken: failed projects or unhealthy
\* integrations; items: activations, content of the hub, or workflows.
Snapshot == [health : {"healthy", "warning", "critical", "not_configured"},
             failed : Failed \cup {0}, broken : 0 .. 1, items : 0 .. 1]

Absent == [health |-> "not_configured", failed |-> 0, broken |-> 0, items |-> 0]
Unavailable == [Absent EXCEPT !.health = "critical"]    \* _collection_failure

HealthTypeOK ==
  /\ hub.syncs \in 0 .. MaxSyncs
  /\ hub.kind \in {"aap", "orchestrator"}
  /\ hub.snapshots \in [ServicesOf(hub.kind) -> Snapshot]
  /\ {hub.row, calls.row, screen.row} \subseteq
       [status : {"healthy", "warning", "critical", "unknown"}, score : 0 .. 100,
        error : {"none", "blank", "text"}]
  /\ screen.state \in {"loading", "ready", "error"}
  /\ screen.snapshots \in [ServicesOf(hub.kind) -> Snapshot]
  /\ calls.step \in {"asked", "rows", "done"} /\ calls.whole \in BOOLEAN

\* error: none, the empty text, or one that can be read.
NewRow == [status |-> "unknown", score |-> 0, error |-> "none"]

HealthInit ==
  \E kind \in {"aap", "orchestrator"} :
    LET none == [s \in ServicesOf(kind) |-> Absent] IN
    /\ hub = [kind |-> kind, row |-> NewRow, snapshots |-> none, syncs |-> 0]
    /\ screen = [state |-> "loading", row |-> NewRow, snapshots |-> none]
    /\ calls = [step |-> "asked", row |-> NewRow, whole |-> TRUE]

----------------------------------------------------------------------------
(* The collector. *)

\* The reasons of collect_controller, collect_eda, collect_hub, collect_orchestrator.
Reasons(service, s) ==
  {r \in {"failures", "breakage", "empty"} :
     \/ r = "failures" /\ service = "controller" /\ s.failed >= 5
     \/ r = "failures" /\ service = "orchestrator" /\ s.failed > 0
     \/ r = "breakage" /\ service \in {"controller", "orchestrator"} /\ s.broken > 0
     \/ r = "empty" /\ service \in {"eda", "hub", "orchestrator"} /\ s.items = 0}

Answer(service, s) == [s EXCEPT !.health = IF Reasons(service, s) = {} THEN "healthy" ELSE "warning"]

Outcomes(service) ==
  LET counted == [health : {"healthy"},
                  failed : IF service \in {"controller", "orchestrator"} THEN Failed \cup {0} ELSE {0},
                  broken : IF service \in {"controller", "orchestrator"} THEN 0 .. 1 ELSE {0},
                  items  : IF service \in {"eda", "hub", "orchestrator"} THEN 0 .. 1 ELSE {0}] IN
  {Answer(service, s) : s \in counted} \cup {Absent, Unavailable}

Collections(kind) ==
  IF kind = "orchestrator" THEN [{"orchestrator"} -> Outcomes("orchestrator")]
  ELSE {[s \in ServicesOf(kind) |-> o[s]] :
          o \in [gateway : Outcomes("gateway"), controller : Outcomes("controller"),
                 eda : Outcomes("eda"), hub : Outcomes("hub")]}

Rated(snapshots, health) == Cardinality({s \in DOMAIN snapshots : snapshots[s].health = health})

\* The average over the services that are configured, rounded down.
Score(snapshots) ==
  LET healthy  == Rated(snapshots, "healthy")
      warning  == Rated(snapshots, "warning")
      critical == Rated(snapshots, "critical")
      scored   == healthy + warning + critical
  IN  IF scored = 0 THEN 0 ELSE (100 * healthy + 70 * warning + 35 * critical) \div scored

\* Mutant: three services of four that only warn are enough.
StatusStrict(score) == IF score >= 90 THEN "healthy" ELSE IF score >= 80 THEN "warning" ELSE "critical"

Status(score) == IF score >= 85 THEN "healthy" ELSE IF score >= 60 THEN "warning" ELSE "critical"

\* An estate whose services are all absent has no status.
Judged(snapshots) ==
  [status |-> IF \A s \in DOMAIN snapshots : snapshots[s].health = "not_configured"
              THEN "unknown" ELSE Status(Score(snapshots)),
   score |-> Score(snapshots), error |-> "none"]

\* run_environment_sync, by its commit; a page that is open does not see it.
SyncCompletes ==
  /\ screen.state = "loading" /\ hub.syncs < MaxSyncs
  /\ \E snapshots \in Collections(hub.kind) :
       hub' = [hub EXCEPT !.snapshots = snapshots, !.row = Judged(snapshots),
                             !.syncs = @ + 1]
  /\ calls' = [calls EXCEPT !.whole = @ /\ calls.step # "rows"]
  /\ UNCHANGED screen

\* Its failure leaves the snapshots, and the score, of the last collection, and
\* stores the text of the exception: empty for a token that cannot be decrypted.
SyncFails ==
  /\ screen.state = "loading" /\ hub.syncs < MaxSyncs
  /\ \E error \in {"blank", "text"} :
       hub' = [hub EXCEPT !.row.status = "critical", !.row.error = error, !.syncs = @ + 1]
  /\ calls' = [calls EXCEPT !.whole = @ /\ calls.step # "rows"]
  /\ UNCHANGED screen

----------------------------------------------------------------------------
(* The page. *)

\* build_monitoring reads the environments, and then their snapshots.
ReadRows ==
  /\ calls.step = "asked"
  /\ calls' = [calls EXCEPT !.step = "rows", !.row = hub.row]
  /\ UNCHANGED <<hub, screen>>

\* The answer arrives with what the second query found.
Arrive ==
  /\ calls.step = "rows"
  /\ screen' = [state |-> "ready", row |-> calls.row, snapshots |-> hub.snapshots]
  /\ calls' = [calls EXCEPT !.step = "done"]
  /\ UNCHANGED hub

ArriveFailed ==
  /\ calls.step \in {"asked", "rows"}
  /\ screen' = [screen EXCEPT !.state = "error"]
  /\ calls' = [calls EXCEPT !.step = "done"]
  /\ UNCHANGED hub

HealthNext == SyncCompletes \/ SyncFails \/ ReadRows \/ Arrive \/ ArriveFailed

HealthSpec == HealthInit /\ [][HealthNext]_healthVars

\* Mutant: only what the page recognises is explained, with a threshold of its own.
ExplainOwnCauses(service, s) ==
  IF s.health \in {"healthy", "not_configured"} THEN {}
  ELSE IF s.health = "critical" THEN {"unavailable"}
  ELSE CASE service = "controller" /\ (s.failed > 5 \/ s.broken > 0) -> {"failures"}
         [] service \in {"eda", "hub"} /\ s.items = 0 -> {"empty"}
         [] service = "orchestrator" /\ (s.failed > 0 \/ s.broken > 0 \/ s.items = 0) -> {"attention"}
         [] OTHER -> {}

\* explainServiceHealth, by the titles; the reason that is shown below, the one
\* that the collector stored or the page's own, is left out.
Explain(service, s) ==
  IF s.health \in {"healthy", "not_configured"} THEN {}
  ELSE IF s.health = "critical" THEN {"unavailable"}
  ELSE CASE service = "controller" /\ (s.failed >= 5 \/ s.broken > 0) -> {"failures"}
         [] service \in {"eda", "hub"} /\ s.items = 0 -> {"empty"}
         [] OTHER -> {"attention"}

\* collectEnvironmentFindings; an empty text is no error to it.
Findings ==
  (UNION {Explain(s, screen.snapshots[s]) : s \in DOMAIN screen.snapshots})
    \cup {f \in {"sync"} : screen.row.error = "text"}

\* healthScoreItems, and the bars of the monitoring page.
Bar == IF screen.row.score >= 85 THEN "success" ELSE IF screen.row.score >= 60 THEN "warning" ELSE "danger"

----------------------------------------------------------------------------
(* Properties, of a page whose two queries no sync has come between. *)

Shown == screen.state = "ready" /\ calls.whole

\* Whatever has made an estate warn, service or sync, is among the findings; only a
\* sync that failed without a text leaves an estate critical with none.
WarningsAreExplained ==
  /\ Shown
  /\ screen.row.status \in {"warning", "critical"}
  => Findings # {} \/ screen.row.error = "blank"

\* "critical means collection failed": neither the status nor a red bar comes of
\* warnings, however many there are.
CriticalMeansFailed ==
  /\ Shown
  /\ \/ screen.row.status = "critical"
     \/ Bar = "danger" /\ screen.row.status # "unknown"
  => "unavailable" \in Findings \/ screen.row.error # "none"
=============================================================================
