------------------------------- MODULE JobsPage -------------------------------
(***************************************************************************)
(* JobsPage (frontend/src/pages/jobs.tsx): the live jobs of the fleet      *)
(* under a filter, the approvals that wait for a decision, and the         *)
(* buttons that cancel a job or decide an approval.  The page asks for all *)
(* of it when it is mounted and again on every change of the filter, and   *)
(* every 15 seconds by an interval; nothing aborts an earlier request.     *)
(*                                                                         *)
(* One job and one approval stand for the fleet.  The parts of a first     *)
(* load, which the code asks for in parallel, are answered in one step.    *)
(* The spinner of a button disables nothing and is left out.               *)
(***************************************************************************)
EXTENDS Integers

CONSTANTS
  Call,        \* calls of the user's clicks that may be outstanding
  Filter,      \* values of the status and environment filters together
  NoFilter,    \* the filter of no answer yet
  MaxChoices   \* bound on the changes of the filter

VARIABLES
  hub,      \* the job and the approval, where they run
  screen,   \* the state of the component
  calls     \* calls[c]: a call of a click, of a load, or of the interval

jobsVars == <<hub, screen, calls>>

Timer == "timer"             \* the requests of the interval
Slot  == Call \cup {Timer}
Verdict == {"approved", "rejected"}

JobsHub == [job : {"running", "over"},
            approval : {"none", "pending"} \cup Verdict,
            choices : 0 .. MaxChoices]

\* shown: the filter and the job's state of the answer in the table.
JobsScreen ==
  [filter : Filter,
   shown : [filter : Filter \cup {NoFilter}, active : BOOLEAN],
   listed : BOOLEAN]

JobsCall ==
  [kind : {"none", "visit", "poll", "refresh", "approvals", "cancel"} \cup Verdict,
   filter : Filter \cup {NoFilter}, step : {"asked", "load", "answered", "failed"},
   active : BOOLEAN, listed : BOOLEAN]

NoJobsCall == [kind |-> "none", filter |-> NoFilter, step |-> "asked",
               active |-> FALSE, listed |-> FALSE]

JobsTypeOK == hub \in JobsHub /\ screen \in JobsScreen /\ calls \in [Slot -> JobsCall]

\* A call made now: load is a closure over the filter of this render.
Asks(kind) == [NoJobsCall EXCEPT !.kind = kind, !.filter = screen.filter]
Tells(kind) == [NoJobsCall EXCEPT !.kind = kind]

JobsInit ==
  /\ hub = [job |-> "running", approval |-> "none", choices |-> 0]
  /\ screen \in [filter : Filter, shown : {[filter |-> NoFilter, active |-> FALSE]},
                 listed : {FALSE}]
  /\ \E c \in Call :
       calls = [s \in Slot |-> IF s = c THEN Asks("visit") ELSE NoJobsCall]

----------------------------------------------------------------------------
(* The fleet. *)

JobEnds ==
  /\ hub.job = "running"
  /\ hub' = [hub EXCEPT !.job = "over"]
  /\ UNCHANGED <<screen, calls>>

ApprovalAsked ==
  /\ hub.approval = "none"
  /\ hub' = [hub EXCEPT !.approval = "pending"]
  /\ UNCHANGED <<screen, calls>>

----------------------------------------------------------------------------
(* Clicks, and the interval. *)

Places(c, call) == calls[c].kind = "none" /\ calls' = [calls EXCEPT ![c] = call]

\* A select changes the filter, load with it, and so both effects run again.
ChooseFilter(c, f) ==
  /\ hub.choices < MaxChoices
  /\ f # screen.filter
  /\ hub' = [hub EXCEPT !.choices = @ + 1]
  /\ screen' = [screen EXCEPT !.filter = f]
  /\ Places(c, [NoJobsCall EXCEPT !.kind = "visit", !.filter = f])

Refresh(c) == Places(c, Asks("refresh")) /\ UNCHANGED <<hub, screen>>

\* Mutant: the interval refreshes the table only.
TickTable == Places(Timer, Asks("refresh")) /\ UNCHANGED <<hub, screen>>

\* Every 15 seconds: load() and the approvals.
Tick == Places(Timer, Asks("poll")) /\ UNCHANGED <<hub, screen>>

\* canCancel, on what the table shows; a second click is not prevented.
CancelJob(c) ==
  /\ screen.shown.active
  /\ Places(c, Asks("cancel"))
  /\ UNCHANGED <<hub, screen>>

DecideApproval(c, v) ==
  /\ screen.listed
  /\ Places(c, Tells(v))
  /\ UNCHANGED <<hub, screen>>

----------------------------------------------------------------------------
(* The hub answers. *)

\* executeAction; where the job or the approval is over, it is refused.
ExecuteAction(c) ==
  /\ calls[c].step = "asked"
  /\ \/ /\ calls[c].kind = "cancel" /\ hub.job = "running"
        /\ hub' = [hub EXCEPT !.job = "over"]
        /\ calls' = [calls EXCEPT ![c].step = "load"]
     \/ /\ calls[c].kind \in Verdict /\ hub.approval = "pending"
        /\ hub' = [hub EXCEPT !.approval = calls[c].kind]
        /\ calls' = [calls EXCEPT ![c].step = "answered"]
     \/ /\ calls[c].kind \in {"cancel"} \cup Verdict
        /\ calls' = [calls EXCEPT ![c].step = "failed"]
        /\ UNCHANGED hub
  /\ UNCHANGED screen

Loads == {"visit", "poll", "refresh"}

Reads(c) ==
  \/ calls[c].step = "load"
  \/ calls[c].step = "asked" /\ calls[c].kind \in Loads

\* The two requests of the interval fail apart; those of a visit fail together.
Parts(kind) == IF kind = "poll" THEN {"poll", "refresh", "approvals"} ELSE {kind}

Answers(c) ==
  /\ Reads(c)
  /\ \E kind \in Parts(calls[c].kind) :
       calls' = [calls EXCEPT ![c].kind = kind, ![c].step = "answered",
                              ![c].active = kind # "approvals" /\ hub.job = "running",
                              ![c].listed = kind \in {"visit", "poll", "approvals"}
                                            /\ hub.approval = "pending"]
  /\ UNCHANGED <<hub, screen>>

Fails(c) ==
  /\ Reads(c)
  /\ calls' = [calls EXCEPT ![c].step = "failed"]
  /\ UNCHANGED <<hub, screen>>

----------------------------------------------------------------------------
(* What an answer does to the page. *)

Updated(s, call) ==
  [s EXCEPT !.shown  = IF call.kind \in Loads \cup {"cancel"}
                       THEN [filter |-> call.filter, active |-> call.active] ELSE @,
            !.listed = IF call.kind \in {"visit", "poll", "approvals"} THEN call.listed
                       ELSE @ /\ call.kind \notin Verdict]

Lands(c) ==
  /\ calls[c].step \in {"answered", "failed"}
  /\ screen' = IF calls[c].step = "failed" THEN screen ELSE Updated(screen, calls[c])
  /\ calls' = [calls EXCEPT ![c] = NoJobsCall]
  /\ UNCHANGED hub

JobsProceed(c) == ExecuteAction(c) \/ Answers(c) \/ Fails(c) \/ Lands(c)

JobsNext ==
  \/ JobEnds \/ ApprovalAsked \/ Tick
  \/ \E c \in Call :
       \/ Refresh(c) \/ CancelJob(c)
       \/ \E f \in Filter : ChooseFilter(c, f)
       \/ \E v \in Verdict : DecideApproval(c, v)
  \/ \E c \in Slot : JobsProceed(c)

----------------------------------------------------------------------------
(* What comes to hold for good. *)

\* Answers for an old filter may land late, and the page never asks whose they
\* are: but once the filter rests, the table is that of the filter and offers
\* Cancel only for a job that runs.
TableIsOfFilter == screen.shown = [filter |-> screen.filter, active |-> (hub.job = "running")]

\* A decided approval may be listed again by an answer that is older than the
\* decision, but in the end the list is what still waits.
ListWaits == screen.listed <=> (hub.approval = "pending")

JobsPageSettles == <>[](TableIsOfFilter /\ ListWaits)
=============================================================================
