------------------------------ MODULE AlertBell ------------------------------
(***************************************************************************)
(* The bell of AppLayout (frontend/src/components/layout.tsx) and the      *)
(* alerts it lists.  It asks for the alerts when it is mounted and every   *)
(* 30 seconds, never waits for an answer before it asks again, and takes   *)
(* answers in the order they arrive; a dismissal is shown before the next  *)
(* answer confirms it.  Module SyncPipeline says when alerts are raised.   *)
(***************************************************************************)
EXTENDS FiniteSets

CONSTANTS
  Alert,    \* alerts that may be raised
  Call      \* requests for the list that may be outstanding at one time

VARIABLES
  hub,      \* hub[a]: the fleet_alerts row, with its two timestamps
  screen,   \* the alerts in the state of the component, and its error
  calls     \* the polls, and for each alert the call that acknowledges it

bellVars == <<hub, screen, calls>>

RowState == {"none", "open", "acknowledged", "resolved", "both"}

IdlePoll == [step |-> "idle", rows |-> [a \in Alert |-> "none"]]

BellTypeOK ==
  /\ hub \in [Alert -> RowState]
  /\ screen \in [rows : [Alert -> RowState], failed : BOOLEAN]
  /\ calls \in [poll : [Call -> [step : {"idle", "asked", "answered", "failed"},
                                rows : [Alert -> RowState]]],
                dismiss : [Alert -> {"none", "sent", "done", "failed"}]]

BellInit ==
  /\ hub = [a \in Alert |-> "none"]
  /\ screen = [rows |-> [a \in Alert |-> "none"], failed |-> FALSE]
  /\ calls = [poll |-> [p \in Call |-> IdlePoll], dismiss |-> [a \in Alert |-> "none"]]

\* What the panel lists: openAlerts with a Dismiss button, closedAlerts below.
ListedOpen(a) == screen.rows[a] = "open"

Acked(row)    == IF row \in {"resolved", "both"} THEN "both" ELSE "acknowledged"
Recovered(row) == IF row \in {"acknowledged", "both"} THEN "both" ELSE "resolved"

\* record_fleet_signal, as far as the bell can see it.
Raise(a) ==
  /\ hub[a] = "none"
  /\ hub' = [hub EXCEPT ![a] = "open"]
  /\ UNCHANGED <<screen, calls>>

Recover(a) ==
  /\ hub[a] \in {"open", "acknowledged"}
  /\ hub' = [hub EXCEPT ![a] = Recovered(@)]
  /\ UNCHANGED <<screen, calls>>

\* load(), on mount and by the interval.
StartPoll(p) ==
  /\ calls.poll[p].step = "idle"
  /\ calls' = [calls EXCEPT !.poll[p].step = "asked"]
  /\ UNCHANGED <<hub, screen>>

AnswerPoll(p) ==
  /\ calls.poll[p].step = "asked"
  /\ calls' = [calls EXCEPT !.poll[p] = [step |-> "answered", rows |-> hub]]
  /\ UNCHANGED <<hub, screen>>

FailPoll(p) ==
  /\ calls.poll[p].step = "asked"
  /\ calls' = [calls EXCEPT !.poll[p].step = "failed"]
  /\ UNCHANGED <<hub, screen>>

\* Mutant: the cleanup of the first mount cancels the answers of the second.
LandPollCancelled(p) ==
  /\ calls.poll[p].step \in {"answered", "failed"}
  /\ calls' = [calls EXCEPT !.poll[p] = IdlePoll]
  /\ UNCHANGED <<hub, screen>>

LandPoll(p) ==
  /\ calls.poll[p].step \in {"answered", "failed"}
  /\ screen' = IF calls.poll[p].step = "failed" THEN [screen EXCEPT !.failed = TRUE]
             ELSE [rows |-> calls.poll[p].rows, failed |-> FALSE]
  /\ calls' = [calls EXCEPT !.poll[p] = IdlePoll]
  /\ UNCHANGED hub

\* Mutant: the alert is marked when the button is clicked.
DismissAtOnce(a) ==
  /\ ListedOpen(a)
  /\ calls.dismiss[a] = "none"
  /\ calls' = [calls EXCEPT !.dismiss[a] = "sent"]
  /\ screen' = [rows |-> [screen.rows EXCEPT ![a] = Acked(@)], failed |-> FALSE]
  /\ UNCHANGED hub

\* The Dismiss button.  A second click only writes acknowledged_at again.
Dismiss(a) ==
  /\ ListedOpen(a)
  /\ calls.dismiss[a] = "none"
  /\ calls' = [calls EXCEPT !.dismiss[a] = "sent"]
  /\ screen' = [screen EXCEPT !.failed = FALSE]
  /\ UNCHANGED hub

\* acknowledge_alert, or a refusal.
Acknowledge(a) ==
  /\ calls.dismiss[a] = "sent"
  /\ \/ /\ hub' = [hub EXCEPT ![a] = Acked(@)]
        /\ calls' = [calls EXCEPT !.dismiss[a] = "done"]
     \/ /\ calls' = [calls EXCEPT !.dismiss[a] = "failed"]
        /\ UNCHANGED hub
  /\ UNCHANGED screen

\* The answer marks the item of the list as it is by then.
DismissReturns(a) ==
  /\ calls.dismiss[a] \in {"done", "failed"}
  /\ screen' = IF calls.dismiss[a] = "failed" THEN [screen EXCEPT !.failed = TRUE]
             ELSE [screen EXCEPT !.rows[a] = IF @ = "none" THEN @ ELSE Acked(@)]
  /\ calls' = [calls EXCEPT !.dismiss[a] = "none"]
  /\ UNCHANGED hub

BellProceed(p) == AnswerPoll(p) \/ FailPoll(p) \/ LandPoll(p)

BellNext ==
  \/ \E a \in Alert : Raise(a) \/ Recover(a) \/ Dismiss(a) \/ Acknowledge(a) \/ DismissReturns(a)
  \/ \E p \in Call : StartPoll(p) \/ BellProceed(p)

----------------------------------------------------------------------------
(* Properties. *)

\* The bell calls an alert dismissed only when the hub has it acknowledged,
\* whatever overtakes what.
DismissedIsOnRecord ==
  \A a \in Alert :
    screen.rows[a] \in {"acknowledged", "both"} => hub[a] \in {"acknowledged", "both"}

ListIsOfHub == screen.rows = hub

\* Late answers may bring a dismissed alert back, or hide a new one, but not for
\* good: in the end the bell lists what the hub has.
BellSettles == <>[]ListIsOfHub
=============================================================================
