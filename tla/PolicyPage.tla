------------------------------ MODULE PolicyPage ------------------------------
(***************************************************************************)
(* PoliciesPage and PolicyForm (frontend/src/pages/policies.tsx and        *)
(* frontend/src/components/policy-form.tsx): an administrator creates one  *)
(* policy and works with it, while collections evaluate it too.            *)
(*                                                                         *)
(* There is one estate of each kind.  The fields of the form are inputs,   *)
(* taken when it is submitted; every estate the policy is evaluated on     *)
(* fails it.  Module FleetPolicy has what a remediation does to an estate. *)
(***************************************************************************)
EXTENDS Naturals

CONSTANTS
  Call,        \* calls that may be outstanding at one time
  RuleType,    \* rule types chosen in the form
  Tagged,      \* the estates that carry the tag of the form
  MaxClicks    \* bound on toggles, pushes and remediations of a behaviour

VARIABLES
  hub,      \* the policy_definitions row, its policy_results, and its effects
  screen,   \* the state of the page
  calls     \* calls[c]: a run of a handler

policyVars == <<hub, screen, calls>>

Estate == {"aap", "orchestrator"}     \* an estate is named by its kind

\* Fields of PolicyForm: the rule, "Applies to", "Limit to tags", and its boxes.
\* The box that allows to push a configuration is there for two types of rules.
Remediable == {"controller_setting", "named_resource_present"}

Form == {form \in [rule : RuleType, applies : {"all"} \cup Estate, tagged : BOOLEAN,
                   remediate : BOOLEAN, push : BOOLEAN] :
           form.remediate => form.rule \in Remediable}

NoForm == [rule |-> "none", applies |-> "all", tagged |-> FALSE,
           remediate |-> FALSE, push |-> FALSE]

\* buildRule.
BuildRule(form) == [type |-> form.rule, remediate |-> form.remediate]

\* Mutant: the kind is forgotten when tags are given.
ScopeByTags(form) ==
  [kinds |-> IF form.tagged \/ form.applies = "all" THEN {} ELSE {form.applies},
   tagged |-> form.tagged]

\* The scope that handleSubmit sends: no kind for "all".
Scope(form) == [kinds |-> {form.applies} \ {"all"}, tagged |-> form.tagged]

\* _scope_matches with _rule_applies_to_kind.
AapOnly == {"controller_setting", "max_failed_jobs", "named_resource_present",
            "component_hosts_match_gateway", "require_version_prefix"}

ScopeMatches(scope, rule, e) ==
  /\ scope.kinds # {} => e \in scope.kinds
  /\ scope.tagged => e \in Tagged
  /\ e = "orchestrator" => rule.type \notin AapOnly
  /\ e = "aap" => rule.type # "max_failed_executions"

PolicyTypeOK ==
  /\ hub \in [state : {"none", "on", "off"}, form : Form \cup {NoForm},
              results : SUBSET Estate, written : SUBSET Estate,
              asked : BOOLEAN, clicks : 0 .. MaxClicks]
  /\ screen \in [shown : {"none", "on", "off"}, results : SUBSET Estate,
                 manage : BOOLEAN, open : BOOLEAN, creating : BOOLEAN,
                 slot : [{"toggle", "push", "remediate"} -> BOOLEAN]]
  /\ calls \in [Call -> [kind : {"none", "visit", "create", "on", "off", "push", "remediate"},
                         form : Form \cup {NoForm},
                         step : {"asked", "checked", "load", "answered", "unread", "failed"},
                         shown : {"none", "on", "off"}, results : SUBSET Estate]]

NoCall == [kind |-> "none", form |-> NoForm, step |-> "asked", shown |-> "none", results |-> {}]

PolicyInit ==
  /\ hub = [state |-> "none", form |-> NoForm, results |-> {}, written |-> {},
            asked |-> FALSE, clicks |-> 0]
  /\ screen = [shown |-> "none", results |-> {}, manage |-> FALSE, open |-> FALSE, creating |-> FALSE,
               slot |-> [k \in {"toggle", "push", "remediate"} |-> FALSE]]
  /\ \E v \in Call : calls = [c \in Call |-> IF c = v THEN [NoCall EXCEPT !.kind = "visit"]
                                             ELSE NoCall]

Matched == {e \in Estate : ScopeMatches(Scope(hub.form), BuildRule(hub.form), e)}

----------------------------------------------------------------------------
(* The administrator. *)

Calls(c, call) == calls[c].kind = "none" /\ calls' = [calls EXCEPT ![c] = call]

OpenForm ==
  /\ screen.manage /\ ~screen.open
  /\ screen' = [screen EXCEPT !.open = TRUE]
  /\ UNCHANGED <<hub, calls>>

CloseForm ==
  /\ screen.open /\ ~screen.creating
  /\ screen' = [screen EXCEPT !.open = FALSE]
  /\ UNCHANGED <<hub, calls>>

\* handleSubmit and createPolicy.
Create(c, form) ==
  /\ screen.open /\ ~screen.creating
  /\ Calls(c, [NoCall EXCEPT !.kind = "create", !.form = form])
  /\ screen' = [screen EXCEPT !.creating = TRUE]
  /\ UNCHANGED hub

\* togglePolicy, pushPolicy and remediatePolicy, on the card that is shown.
Offered(kind) ==
  CASE kind = "on"        -> screen.shown = "off" /\ ~screen.slot["toggle"]
    [] kind = "off"       -> screen.shown = "on" /\ ~screen.slot["toggle"]
    [] kind = "push"      -> screen.shown = "on" /\ ~screen.slot["push"]
    [] kind = "remediate" -> /\ screen.shown = "on" /\ ~screen.slot["remediate"]
                             /\ BuildRule(hub.form).remediate

SlotOf(kind) == IF kind \in {"on", "off"} THEN "toggle" ELSE kind

Click(c, kind) ==
  /\ ~screen.open
  /\ Offered(kind)
  /\ hub.clicks < MaxClicks
  /\ hub' = [hub EXCEPT !.clicks = @ + 1]
  /\ screen' = [screen EXCEPT !.slot[SlotOf(kind)] = TRUE]
  /\ Calls(c, [NoCall EXCEPT !.kind = kind])

----------------------------------------------------------------------------
(* The hub. *)

Advance(c, step) == calls' = [calls EXCEPT ![c].step = step] /\ UNCHANGED screen

\* create_policy: the row is enabled whatever the form asked for.
CreatePolicy(c) ==
  /\ calls[c].kind = "create" /\ calls[c].step = "asked"
  /\ hub.state = "none"
  /\ hub' = [hub EXCEPT !.state = "on", !.form = calls[c].form, !.asked = calls[c].form.push]
  /\ Advance(c, IF calls[c].form.push THEN "checked" ELSE "load")

\* update_policy.
Toggle(c) ==
  /\ calls[c].kind \in {"on", "off"} /\ calls[c].step = "asked"
  /\ hub' = [hub EXCEPT !.state = calls[c].kind, !.asked = @ \/ calls[c].kind = "on"]
  /\ calls' = [calls EXCEPT ![c].step = "answered", ![c].shown = calls[c].kind]
  /\ UNCHANGED screen

\* push_policy and remediate_policy look at the policy, and then go to the estates.
Check(c) ==
  /\ calls[c].kind \in {"push", "remediate"} /\ calls[c].step = "asked"
  /\ hub.state = "on"
  /\ calls[c].kind = "remediate" => BuildRule(hub.form).remediate
  /\ hub' = [hub EXCEPT !.asked = TRUE]
  /\ Advance(c, "checked")

\* A remediation writes to the matched estates as they do not comply;
\* evaluate_fleet leaves a policy alone that was disabled meanwhile.
Evaluate(c) ==
  /\ calls[c].step = "checked"
  /\ hub' = [hub EXCEPT !.results = IF hub.state = "on" THEN @ \cup Matched ELSE @,
                        !.written = IF calls[c].kind = "remediate" THEN @ \cup Matched ELSE @]
  /\ Advance(c, "load")

\* The policies and results of reload() or of the first load.
Load(c) ==
  /\ \/ calls[c].step = "load"
     \/ calls[c].kind = "visit" /\ calls[c].step = "asked"
  /\ calls' = [calls EXCEPT ![c].step = "answered", ![c].shown = hub.state,
                            ![c].results = hub.results]
  /\ UNCHANGED <<hub, screen>>

Fail(c) ==
  /\ calls[c].kind # "none" /\ calls[c].step \in {"asked", "checked", "load"}
  /\ Advance(c, IF calls[c].step = "load" THEN "unread" ELSE "failed")
  /\ UNCHANGED hub

\* A collection of an estate evaluates every enabled policy in scope.
Collected(e) ==
  /\ hub.state = "on" /\ e \in Matched
  /\ hub' = [hub EXCEPT !.results = @ \cup {e}]
  /\ UNCHANGED <<screen, calls>>

\* Answers and the finally clauses; a policy that is not shown is not updated.
Land(c) ==
  LET call == calls[c]
      good == call.step = "answered"
      whole == call.kind \notin {"on", "off"} IN
  /\ call.step \in {"answered", "unread", "failed"}
  /\ screen' = [screen EXCEPT
       !.shown    = IF good /\ (whole \/ @ # "none") THEN call.shown ELSE @,
       !.results  = IF good /\ whole THEN call.results ELSE @,
       !.manage   = @ \/ (call.kind = "visit" /\ good),
       !.open     = @ /\ (call.kind # "create" \/ call.step = "failed"),
       !.creating = @ /\ call.kind # "create",
       !.slot     = [k \in DOMAIN screen.slot |-> screen.slot[k] /\ k # SlotOf(call.kind)]]
  /\ calls' = [calls EXCEPT ![c] = NoCall]
  /\ UNCHANGED hub

PolicyProceed(c) == CreatePolicy(c) \/ Toggle(c) \/ Check(c) \/ Evaluate(c) \/ Load(c) \/ Fail(c) \/ Land(c)

PolicyNext ==
  \/ OpenForm \/ CloseForm
  \/ \E e \in Estate : Collected(e)
  \/ \E c \in Call :
       \/ \E form \in Form : Create(c, form)
       \/ \E kind \in {"on", "off", "push", "remediate"} : Click(c, kind)
       \/ PolicyProceed(c)

PolicySpec == PolicyInit /\ [][PolicyNext]_policyVars

----------------------------------------------------------------------------
(* Properties. *)

\* No estate outside what the form selected is ever evaluated, whoever asks.
ResultsInSelection ==
  \A e \in hub.results :
    /\ hub.form.applies \in {"all", e}
    /\ hub.form.tagged => e \in Tagged

\* "Allow pushing this configuration onto noncompliant AAP environments": without
\* the tick, and on any other product, nothing is ever written.
WrittenOnlyIfAllowed ==
  hub.written # {} => hub.form.remediate /\ hub.written \subseteq {"aap"}

\* Evaluations, pushes and remediations of a policy keep to its form.
KeepsToForm == ResultsInSelection /\ WrittenOnlyIfAllowed

\* "Enable and push it when you are ready": a policy created without the push has
\* no results before the administrator enables or pushes it.
WaitsForEnable == hub.results # {} => hub.asked
=============================================================================
