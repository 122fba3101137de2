----------------------------- MODULE Registration -----------------------------
(***************************************************************************)
(* Registering an estate and editing it: EnvironmentForm                   *)
(* (frontend/src/components/environment-form.tsx) in the dialog of         *)
(* EnvironmentsPage and in the settings tab of EnvironmentDetailPage, and  *)
(* what the hub stores of it (create_environment, update_environment and   *)
(* _normalize_environment_product_fields in api/routes.py).                *)
(*                                                                         *)
(* One estate and one name.  The token stands for the secrets of the form, *)
(* which are treated alike.  Names, URLs and JSON fields may be found      *)
(* wanting at any submission.  The steps of the dialog are one, and        *)
(* what is typed while a submission runs, which has its payload, is typed  *)
(* after it.                                                               *)
(***************************************************************************)
EXTENDS Integers

CONSTANTS
  Token,       \* tokens that may be typed
  NoToken,     \* a blank field, an empty column
  NoRow,       \* the estate is not registered
  MaxSaves     \* bound on the submissions of the settings form

VARIABLES
  hub,      \* the row, the sync queue, and the token given last
  screen,   \* the page, the form and its step
  calls     \* the submission under way, and its payload

registrationVars == <<hub, screen, calls>>

Kind == {"aap", "orchestrator"}
Mode == {"oauth2", "service_account", "header_passthrough"}
AnyToken == Token \cup {NoToken}

Row == [kind : Kind, mode : Mode, token : AnyToken, orchToken : AnyToken]
Form == [kind : Kind, mode : Mode, token : AnyToken, sync : BOOLEAN]

BlankForm == [kind |-> "aap", mode |-> "oauth2", token |-> NoToken, sync |-> TRUE]

RegistrationTypeOK ==
  /\ hub \in [row : Row \cup {NoRow}, given : AnyToken, queued : BOOLEAN, taken : BOOLEAN,
              saves : 0 .. MaxSaves]
  /\ screen \in [place : {"list", "dialog", "done", "settings"}, form : Form,
                 busy : BOOLEAN, listed : BOOLEAN, error : BOOLEAN]
  /\ calls \in [step : {"none", "write", "sync", "load", "done", "failed"}, form : Form]

RegistrationInit ==
  /\ hub = [row |-> NoRow, given |-> NoToken, queued |-> FALSE, taken |-> FALSE, saves |-> 0]
  /\ screen = [place |-> "list", form |-> BlankForm, busy |-> FALSE, listed |-> FALSE, error |-> FALSE]
  /\ calls = [step |-> "none", form |-> BlankForm]

Creating == screen.place = "dialog"

----------------------------------------------------------------------------
(* The form. *)

\* The dialog mounts a fresh form; the page's error stays over it.
OpenDialog ==
  /\ screen.place \in {"list", "done"} /\ ~screen.busy
  /\ screen' = [screen EXCEPT !.place = "dialog", !.form = BlankForm]
  /\ UNCHANGED <<hub, calls>>

CloseDialog ==
  /\ Creating /\ ~screen.busy
  /\ screen' = [screen EXCEPT !.place = "list", !.form = BlankForm]
  /\ UNCHANGED <<hub, calls>>

\* buildInitialState: the fields of the row, and blank secrets.
InitialForm(row) ==
  [BlankForm EXCEPT !.kind = row.kind, !.mode = row.mode, !.sync = FALSE]

OpenSettings ==
  /\ screen.place \in {"list", "done"} /\ ~screen.busy /\ screen.listed
  /\ screen' = [screen EXCEPT !.place = "settings", !.form = InitialForm(hub.row), !.error = FALSE]
  /\ UNCHANGED <<hub, calls>>

Typing == screen.place \in {"dialog", "settings"} /\ ~screen.busy

\* The product select, which also sets the auth mode; disabled in the settings.
ChooseKind(k) ==
  /\ Creating /\ Typing
  /\ screen' = [screen EXCEPT !.form.kind = k,
                              !.form.mode = IF k = "orchestrator" THEN "service_account" ELSE @]
  /\ UNCHANGED <<hub, calls>>

TypeCredentials(mode, token) ==
  /\ Typing
  /\ screen' = [screen EXCEPT !.form.mode = mode, !.form.token = token]
  /\ UNCHANGED <<hub, calls>>

ToggleSync ==
  /\ Typing
  /\ screen' = [screen EXCEPT !.form.sync = ~@]
  /\ UNCHANGED <<hub, calls>>

\* validateCredentialState: edits are not validated.
HasCredentials(form) == form.mode = "header_passthrough" \/ form.token # NoToken

\* handleSubmit; what is refused leaves an error in the form.
Submit ==
  /\ Typing
  /\ hub.saves < MaxSaves
  /\ \/ /\ Creating => HasCredentials(screen.form)
        /\ screen' = [screen EXCEPT !.busy = TRUE, !.error = FALSE]
        /\ calls' = [step |-> "write", form |-> screen.form]
        /\ hub' = [hub EXCEPT !.saves = @ + 1]
     \/ /\ screen' = [screen EXCEPT !.error = TRUE]
        /\ UNCHANGED <<hub, calls>>

----------------------------------------------------------------------------
(* The hub. *)

Or(token, other) == IF token = NoToken THEN other ELSE token

\* Mutant: the settings form sends the secrets of the platform only.
PayloadOfPlatform(form) ==
  [kind |-> form.kind, mode |-> form.mode, token |-> form.token, orchToken |-> NoToken]

\* The secrets that are sent: an Orchestrator gets what is typed twice.
Payload(form) ==
  [kind |-> form.kind, mode |-> form.mode, token |-> form.token,
   orchToken |-> IF form.kind = "orchestrator" THEN form.token ELSE NoToken]

\* _normalize_environment_product_fields.
Normalized(row) ==
  IF row.kind = "orchestrator"
  THEN [row EXCEPT !.orchToken = Or(@, row.token), !.token = Or(@, row.orchToken)]
  ELSE [row EXCEPT !.orchToken = NoToken]

\* update_environment: only what is sent is set, and handleSave drops blank secrets.
Edited(row, p) ==
  [row EXCEPT !.mode = p.mode, !.token = Or(p.token, @), !.orchToken = Or(p.orchToken, @)]

Stored(p) == Normalized(IF hub.row = NoRow THEN p ELSE Edited(hub.row, p))

\* Another client registers the name.
NameTaken ==
  /\ hub.row = NoRow /\ ~hub.taken
  /\ hub' = [hub EXCEPT !.taken = TRUE]
  /\ UNCHANGED <<screen, calls>>

\* create_environment refuses a name that is there; update_environment finds the row.
Accepted == IF Creating THEN hub.row = NoRow /\ ~hub.taken ELSE hub.row # NoRow

\* The answer to an accepted write may be lost.
Write ==
  /\ calls.step = "write"
  /\ \/ /\ Accepted
        /\ hub' = [hub EXCEPT !.row = Stored(Payload(calls.form)), !.given = Or(calls.form.token, @)]
        /\ \E step \in {IF calls.form.sync THEN "sync" ELSE "load", "failed"} :
             calls' = [calls EXCEPT !.step = step]
     \/ /\ calls' = [calls EXCEPT !.step = "failed"]
        /\ UNCHANGED hub
  /\ UNCHANGED screen

\* syncEnvironment: a sync is queued, or refused.
QueueSync ==
  /\ calls.step = "sync"
  /\ \/ hub' = [hub EXCEPT !.queued = TRUE] /\ calls' = [calls EXCEPT !.step = "load"]
     \/ UNCHANGED hub /\ calls' = [calls EXCEPT !.step = "failed"]
  /\ UNCHANGED screen

\* loadEnvironments, or loadEnvironment, whose row starts the form anew.
Load ==
  /\ calls.step = "load"
  /\ \E step \in {"done", "failed"} : calls' = [calls EXCEPT !.step = step]
  /\ UNCHANGED <<hub, screen>>

\* Mutant: the dialog is closed in the finally block.
FinishClosing ==
  /\ calls.step \in {"done", "failed"}
  /\ screen' = [screen EXCEPT !.busy = FALSE, !.error = (calls.step = "failed"),
                              !.place = IF Creating THEN "done" ELSE @]
  /\ calls' = [step |-> "none", form |-> [BlankForm EXCEPT !.sync = calls.form.sync]]
  /\ UNCHANGED hub

\* The rest of handleCreate and handleSave; after a failure the form stays as it is.
Finish ==
  /\ calls.step \in {"done", "failed"}
  /\ screen' = IF calls.step = "failed" THEN [screen EXCEPT !.busy = FALSE, !.error = TRUE]
               ELSE IF Creating THEN [screen EXCEPT !.busy = FALSE, !.listed = TRUE, !.place = "done",
                                                 !.form = BlankForm]
               ELSE [screen EXCEPT !.busy = FALSE, !.form = InitialForm(hub.row)]
  /\ calls' = [step |-> "none", form |-> [BlankForm EXCEPT !.sync = calls.form.sync]]
  /\ UNCHANGED hub

\* The page is left for the list, which loads the estates again.
LeaveSettings ==
  /\ screen.place \in {"settings", "list"} /\ ~screen.busy
  /\ screen' = [screen EXCEPT !.place = "list", !.form = BlankForm,
                              !.listed = (hub.row # NoRow), !.error = FALSE]
  /\ UNCHANGED <<hub, calls>>

RegistrationProceed == Write \/ QueueSync \/ Load \/ Finish

RegistrationNext ==
  \/ OpenDialog \/ CloseDialog \/ OpenSettings \/ LeaveSettings
  \/ \E k \in Kind : ChooseKind(k)
  \/ \E m \in Mode, t \in AnyToken : TypeCredentials(m, t)
  \/ ToggleSync \/ Submit
  \/ NameTaken \/ RegistrationProceed

RegistrationSpec == RegistrationInit /\ [][RegistrationNext]_registrationVars

----------------------------------------------------------------------------
(* Properties. *)

\* The token that a sync of the estate uses (services/connectors.py); with header
\* passthrough the platform's own are forwarded.
UsedToken(row) == IF row.kind = "orchestrator" THEN Or(row.orchToken, row.token) ELSE row.token

\* Whatever was given, left blank and replaced since, and whichever answers were
\* lost, a sync uses the token that was given last.
LatestTokenIsUsed == hub.row # NoRow => UsedToken(hub.row) = hub.given

\* A dialog that closed by itself has registered the estate, has it in the list
\* and has queued the sync that was asked for.
ClosedMeansRegistered ==
  screen.place = "done" =>
    /\ hub.row # NoRow
    /\ screen.listed
    /\ calls.form.sync => hub.queued
=============================================================================
