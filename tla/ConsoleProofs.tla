---------------------------- MODULE ConsoleProofs ----------------------------
(***************************************************************************)
(* Theorems about the pages of Console.  Each page has an invariant that    *)
(* says what the calls under way may still bring; they are inductive one by *)
(* one, as a page has the state to itself while it is open.                 *)
(***************************************************************************)
EXTENDS Console, Integers, FiniteSetTheorems, TLAPS

LEMMA BoundAssumption == Bound \in Nat
  BY ConsoleAssumption

LEMMA ValueAssumption == Default \in Value /\ None \notin Value
  BY ConsoleAssumption

LEMMA RowAssumption == None \notin Register!Row
  BY ConsoleAssumption

LEMMA PeopleAssumption ==
  Root \in User /\ Delegate \in User \ {Root} /\ Home \in Env /\ "hub" \notin Env
  BY ConsoleAssumption

-----------------------------------------------------------------------------
(* The bell.  What a poll will bring, and what a dismissal will mark, has to *)
(* be on record already when it is answered.                                 *)

Acked == {"acknowledged", "both"}

BellInv ==
  /\ Bell!BellTypeOK
  /\ \A a \in Alert :
       /\ screen.rows[a] \in Acked => hub[a] \in Acked
       /\ calls.dismiss[a] = "done" => hub[a] \in Acked
       /\ \A p \in Poll : calls.poll[p].step = "answered" /\ calls.poll[p].rows[a] \in Acked
                            => hub[a] \in Acked

LEMMA BellStarts == Bell!BellInit => BellInv
  <1> SUFFICES ASSUME Bell!BellInit PROVE BellInv
    OBVIOUS
  <1>1. Bell!BellTypeOK
    BY DEF Bell!BellInit, Bell!BellTypeOK, Bell!IdlePoll, Bell!RowState
  <1> QED BY <1>1 DEF Bell!BellInit, Bell!IdlePoll, BellInv, Acked

\* An acknowledgement is never taken back.
LEMMA BellHubMoves ==
  ASSUME BellInv, UNCHANGED <<screen, calls>>, hub' \in [Alert -> Bell!RowState],
         \A a \in Alert : hub[a] \in Acked => hub'[a] \in Acked
  PROVE  BellInv'
  BY DEF BellInv, Bell!BellTypeOK

LEMMA BellKeeps == BellInv /\ Bell!BellNext => BellInv'
  <1> SUFFICES ASSUME BellInv, Bell!BellNext PROVE BellInv'
    OBVIOUS
  <1>1. ASSUME NEW a \in Alert, Bell!Raise(a) \/ Bell!Recover(a)
        PROVE  BellInv'
    <2>1. hub' \in [Alert -> Bell!RowState] /\ UNCHANGED <<screen, calls>>
      BY <1>1 DEF Bell!Raise, Bell!Recover, Bell!Recovered, BellInv, Bell!BellTypeOK, Bell!RowState
    <2>2. \A b \in Alert : hub[b] \in Acked => hub'[b] \in Acked
      BY <1>1 DEF Bell!Raise, Bell!Recover, Bell!Recovered, BellInv, Bell!BellTypeOK, Acked
    <2> QED BY <2>1, <2>2, BellHubMoves
  <1>2. ASSUME NEW a \in Alert, Bell!Dismiss(a)
        PROVE  BellInv'
    <2>1. /\ UNCHANGED hub /\ screen'.rows = screen.rows /\ calls'.poll = calls.poll
          /\ \A b \in Alert : calls'.dismiss[b] = "done" => calls.dismiss[b] = "done"
      BY <1>2 DEF Bell!Dismiss, BellInv, Bell!BellTypeOK
    <2>2. Bell!BellTypeOK'
      BY <1>2 DEF Bell!Dismiss, BellInv, Bell!BellTypeOK
    <2> QED BY <2>1, <2>2 DEF BellInv
  <1>3. ASSUME NEW a \in Alert, Bell!Acknowledge(a)
        PROVE  BellInv'
    <2>1. /\ UNCHANGED screen /\ calls'.poll = calls.poll
          /\ \A b \in Alert \ {a} : calls'.dismiss[b] = calls.dismiss[b]
      BY <1>3 DEF Bell!Acknowledge, BellInv, Bell!BellTypeOK
    <2>2. \A b \in Alert : hub[b] \in Acked => hub'[b] \in Acked
      BY <1>3 DEF Bell!Acknowledge, Bell!Acked, BellInv, Bell!BellTypeOK, Acked
    <2>3. calls'.dismiss[a] = "done" => hub'[a] \in Acked
      BY <1>3 DEF Bell!Acknowledge, Bell!Acked, BellInv, Bell!BellTypeOK, Acked
    <2>4. Bell!BellTypeOK'
      BY <1>3 DEF Bell!Acknowledge, Bell!Acked, BellInv, Bell!BellTypeOK, Bell!RowState
    <2> QED BY <2>1, <2>2, <2>3, <2>4 DEF BellInv
  <1>4. ASSUME NEW a \in Alert, Bell!DismissReturns(a)
        PROVE  BellInv'
    <2>1. /\ UNCHANGED hub /\ calls'.poll = calls.poll
          /\ \A b \in Alert : calls'.dismiss[b] = "done" => calls.dismiss[b] = "done"
      BY <1>4 DEF Bell!DismissReturns, BellInv, Bell!BellTypeOK
    <2>2. \A b \in Alert : screen'.rows[b] = screen.rows[b] \/ (b = a /\ calls.dismiss[a] = "done")
      BY <1>4 DEF Bell!DismissReturns, BellInv, Bell!BellTypeOK
    <2>3. Bell!BellTypeOK'
      BY <1>4 DEF Bell!DismissReturns, Bell!Acked, BellInv, Bell!BellTypeOK, Bell!RowState
    <2> QED BY <2>1, <2>2, <2>3 DEF BellInv
  <1>5. ASSUME NEW p \in Poll, Bell!StartPoll(p) \/ Bell!FailPoll(p)
        PROVE  BellInv'
    <2>1. /\ UNCHANGED <<hub, screen>> /\ calls'.dismiss = calls.dismiss
          /\ \A q \in Poll : \/ calls'.poll[q] = calls.poll[q]
                             \/ calls'.poll[q].step \in {"asked", "failed"}
      BY <1>5 DEF Bell!StartPoll, Bell!FailPoll, BellInv, Bell!BellTypeOK
    <2>2. Bell!BellTypeOK'
      BY SMTT(30), <1>5 DEF Bell!StartPoll, Bell!FailPoll, BellInv, Bell!BellTypeOK
    <2> QED BY <2>1, <2>2 DEF BellInv
  <1>6. ASSUME NEW p \in Poll, Bell!AnswerPoll(p)
        PROVE  BellInv'
    <2>1. /\ UNCHANGED <<hub, screen>> /\ calls'.dismiss = calls.dismiss
          /\ calls'.poll[p].rows = hub
          /\ \A q \in Poll \ {p} : calls'.poll[q] = calls.poll[q]
      BY <1>6 DEF Bell!AnswerPoll, BellInv, Bell!BellTypeOK
    <2>2. Bell!BellTypeOK'
      BY <1>6 DEF Bell!AnswerPoll, BellInv, Bell!BellTypeOK
    <2> QED BY <2>1, <2>2 DEF BellInv
  <1>7. ASSUME NEW p \in Poll, Bell!LandPoll(p)
        PROVE  BellInv'
    <2>1. /\ UNCHANGED hub /\ calls'.dismiss = calls.dismiss
          /\ calls'.poll[p].step = "idle"
          /\ \A q \in Poll \ {p} : calls'.poll[q] = calls.poll[q]
      BY <1>7 DEF Bell!LandPoll, Bell!IdlePoll, BellInv, Bell!BellTypeOK
    <2>2. \/ screen'.rows = screen.rows
          \/ calls.poll[p].step = "answered" /\ screen'.rows = calls.poll[p].rows
      BY <1>7 DEF Bell!LandPoll, BellInv, Bell!BellTypeOK
    <2>3. Bell!IdlePoll \in [step : {"idle", "asked", "answered", "failed"},
                             rows : [Alert -> Bell!RowState]]
      BY DEF Bell!IdlePoll, Bell!RowState
    <2>4. Bell!BellTypeOK'
      BY <1>7, <2>3 DEF Bell!LandPoll, BellInv, Bell!BellTypeOK
    <2> QED BY <2>1, <2>2, <2>4 DEF BellInv
  <1> QED BY <1>1, <1>2, <1>3, <1>4, <1>5, <1>6, <1>7 DEF Bell!BellNext, Bell!BellProceed

-----------------------------------------------------------------------------
(* Jobs.  A job that is over stays so, and whatever has seen it over is right. *)

SawEnd(call) == call.step = "answered" /\ call.kind \in Jobs!Loads \cup {"cancel"} /\ ~ call.active

JobsInv ==
  /\ Jobs!JobsTypeOK
  /\ screen.shown.filter # None /\ ~ screen.shown.active => hub.job = "over"
  /\ \A c \in Jobs!Slot : SawEnd(calls[c]) => hub.job = "over"

LEMMA NoJobsCallFits ==
  /\ Jobs!NoJobsCall \in Jobs!JobsCall
  /\ ~ SawEnd(Jobs!NoJobsCall)
  BY DEF Jobs!NoJobsCall, Jobs!JobsCall, SawEnd

LEMMA JobsStarts == Jobs!JobsInit => JobsInv
  <1> SUFFICES ASSUME Jobs!JobsInit PROVE JobsInv
    OBVIOUS
  <1>1. hub \in Jobs!JobsHub
    BY DEF Jobs!JobsInit, Jobs!JobsHub
  <1>2. screen \in Jobs!JobsScreen /\ screen.shown.filter = None
    <2>1. screen \in [filter : Filter, shown : {[filter |-> None, active |-> FALSE]}, listed : {FALSE}]
      BY DEF Jobs!JobsInit
    <2>2. screen = [filter |-> screen.filter, shown |-> [filter |-> None, active |-> FALSE], listed |-> FALSE]
            /\ screen.filter \in Filter
      BY <2>1
    <2>3. [filter |-> None, active |-> FALSE] \in [filter : Filter \cup {None}, active : BOOLEAN]
      OBVIOUS
    <2>4. \A f \in Filter, s \in [filter : Filter \cup {None}, active : BOOLEAN] :
            [filter |-> f, shown |-> s, listed |-> FALSE] \in Jobs!JobsScreen
      BY DEF Jobs!JobsScreen
    <2>5. screen \in Jobs!JobsScreen
      BY Zenon, <2>2, <2>3, <2>4
    <2>6. screen.shown.filter = None
      BY <2>2
    <2> QED BY <2>5, <2>6
  <1>3. PICK c \in Button :
          calls = [s \in Jobs!Slot |-> IF s = c THEN Jobs!Asks("visit") ELSE Jobs!NoJobsCall]
    BY DEF Jobs!JobsInit
  <1>4. Jobs!Asks("visit") \in Jobs!JobsCall /\ ~ SawEnd(Jobs!Asks("visit"))
    BY <1>2 DEF Jobs!Asks, Jobs!NoJobsCall, Jobs!JobsCall, Jobs!JobsScreen, SawEnd
  <1> QED BY <1>1, <1>2, <1>3, <1>4, NoJobsCallFits DEF JobsInv, Jobs!JobsTypeOK

\* A call that is made has seen nothing yet.
LEMMA JobsPlaced ==
  ASSUME JobsInv, NEW c \in Jobs!Slot, NEW call \in Jobs!JobsCall, call.step = "asked",
         Jobs!Places(c, call), hub' \in Jobs!JobsHub, hub'.job = hub.job,
         screen' \in Jobs!JobsScreen, screen'.shown = screen.shown
  PROVE  JobsInv'
  BY DEF JobsInv, Jobs!JobsTypeOK, Jobs!Places, SawEnd

LEMMA JobsKeeps == JobsInv /\ Jobs!JobsNext => JobsInv'
  <1> SUFFICES ASSUME JobsInv, Jobs!JobsNext PROVE JobsInv'
    OBVIOUS
  <1>0. /\ hub \in Jobs!JobsHub /\ screen \in Jobs!JobsScreen
        /\ calls \in [Jobs!Slot -> Jobs!JobsCall]
    BY DEF JobsInv, Jobs!JobsTypeOK
  <1>1. CASE Jobs!JobEnds \/ Jobs!ApprovalAsked
    BY <1>0, <1>1
       DEF Jobs!JobEnds, Jobs!ApprovalAsked, JobsInv, Jobs!JobsTypeOK, Jobs!JobsHub
  <1>2. \A kind \in {"poll", "refresh", "cancel"} \cup Jobs!Verdict :
          /\ Jobs!Asks(kind) \in Jobs!JobsCall /\ Jobs!Asks(kind).step = "asked"
          /\ Jobs!Tells(kind) \in Jobs!JobsCall /\ Jobs!Tells(kind).step = "asked"
    BY <1>0 DEF Jobs!Asks, Jobs!Tells, Jobs!NoJobsCall, Jobs!JobsCall, Jobs!JobsScreen
  <1>3. CASE Jobs!Tick
    BY <1>0, <1>2, <1>3, JobsPlaced DEF Jobs!Tick, Jobs!Slot
  <1>4. ASSUME NEW c \in Button, Jobs!Refresh(c) \/ Jobs!CancelJob(c)
        PROVE  JobsInv'
    BY <1>0, <1>2, <1>4, JobsPlaced DEF Jobs!Refresh, Jobs!CancelJob, Jobs!Slot
  <1>5. ASSUME NEW c \in Button, NEW f \in Filter, Jobs!ChooseFilter(c, f)
        PROVE  JobsInv'
    <2> DEFINE call == [Jobs!NoJobsCall EXCEPT !.kind = "visit", !.filter = f]
    <2>1. call \in Jobs!JobsCall /\ call.step = "asked"
      BY DEF Jobs!NoJobsCall, Jobs!JobsCall
    <2>2. hub' \in Jobs!JobsHub /\ hub'.job = hub.job
      BY <1>0, <1>5 DEF Jobs!ChooseFilter, Jobs!JobsHub
    <2>3. screen' \in Jobs!JobsScreen /\ screen'.shown = screen.shown
      BY <1>0, <1>5 DEF Jobs!ChooseFilter, Jobs!JobsScreen
    <2> QED BY <1>5, <2>1, <2>2, <2>3, JobsPlaced DEF Jobs!ChooseFilter, Jobs!Slot
  <1>6. ASSUME NEW c \in Button, NEW v \in Jobs!Verdict, Jobs!DecideApproval(c, v)
        PROVE  JobsInv'
    BY <1>0, <1>2, <1>6, JobsPlaced DEF Jobs!DecideApproval, Jobs!Slot
  <1>7. ASSUME NEW c \in Jobs!Slot, Jobs!ExecuteAction(c)
        PROVE  JobsInv'
    <2>1. hub' \in Jobs!JobsHub /\ (hub.job = "over" => hub'.job = "over")
      BY <1>0, <1>7 DEF Jobs!ExecuteAction, Jobs!JobsHub, Jobs!Verdict
    <2>2. PICK step \in {"load", "answered", "failed"} :
            /\ calls' = [calls EXCEPT ![c].step = step]
            /\ step = "answered" => calls[c].kind \in Jobs!Verdict
      BY <1>7 DEF Jobs!ExecuteAction
    <2>3. calls' \in [Jobs!Slot -> Jobs!JobsCall]
      BY <1>0, <2>2 DEF Jobs!JobsCall
    <2>4. ~ SawEnd(calls'[c])
      BY <1>0, <2>2 DEF Jobs!JobsCall, SawEnd, Jobs!Loads, Jobs!Verdict
    <2> QED BY <1>0, <1>7, <2>1, <2>2, <2>3, <2>4 DEF Jobs!ExecuteAction, JobsInv, Jobs!JobsTypeOK
  <1>8. ASSUME NEW c \in Jobs!Slot, Jobs!Answers(c)
        PROVE  JobsInv'
    <2>1. PICK kind \in Jobs!Parts(calls[c].kind), active \in BOOLEAN, listed \in BOOLEAN :
            /\ active = (kind # "approvals" /\ hub.job = "running")
            /\ calls' = [calls EXCEPT ![c].kind = kind, ![c].step = "answered",
                                      ![c].active = active, ![c].listed = listed]
      BY <1>8, Zenon DEF Jobs!Answers
    <2>2. kind \in {"poll", "refresh", "approvals", calls[c].kind}
      BY DEF Jobs!Parts
    <2>3. calls' \in [Jobs!Slot -> Jobs!JobsCall]
      <3> DEFINE call == [calls[c] EXCEPT !.kind = kind, !.step = "answered",
                                          !.active = active, !.listed = listed]
      <3>1. call \in Jobs!JobsCall
        BY <1>0, <2>2 DEF Jobs!JobsCall
      <3>2. calls' = [calls EXCEPT ![c] = call]
        BY <1>0, <2>1
      <3> QED BY <1>0, <3>1, <3>2
    <2>4. SawEnd(calls'[c]) => hub.job = "over"
      BY <1>0, <2>1 DEF Jobs!JobsCall, Jobs!JobsHub, SawEnd, Jobs!Loads
    <2> QED BY <1>8, <2>1, <2>3, <2>4 DEF Jobs!Answers, JobsInv, Jobs!JobsTypeOK
  <1>9. ASSUME NEW c \in Jobs!Slot, Jobs!Fails(c)
        PROVE  JobsInv'
    <2>1. calls' \in [Jobs!Slot -> Jobs!JobsCall] /\ ~ SawEnd(calls'[c])
      BY <1>0, <1>9 DEF Jobs!Fails, Jobs!JobsCall, SawEnd
    <2> QED BY <1>9, <2>1 DEF Jobs!Fails, JobsInv, Jobs!JobsTypeOK
  <1>10. ASSUME NEW c \in Jobs!Slot, Jobs!Lands(c)
         PROVE  JobsInv'
    <2>1. calls' \in [Jobs!Slot -> Jobs!JobsCall] /\ ~ SawEnd(calls'[c])
      BY <1>0, <1>10, NoJobsCallFits DEF Jobs!Lands
    <2>2. screen' \in Jobs!JobsScreen
      BY <1>0, <1>10 DEF Jobs!Lands, Jobs!Updated, Jobs!JobsScreen, Jobs!JobsCall
    <2>3. \/ screen'.shown = screen.shown
          \/ /\ screen'.shown.active = calls[c].active
             /\ calls[c].step = "answered" /\ calls[c].kind \in Jobs!Loads \cup {"cancel"}
      BY <1>0, <1>10 DEF Jobs!Lands, Jobs!Updated, Jobs!JobsScreen, Jobs!JobsCall
    <2> QED BY <1>10, <2>1, <2>2, <2>3 DEF Jobs!Lands, JobsInv, Jobs!JobsTypeOK, SawEnd
  <1> QED BY <1>1, <1>3, <1>4, <1>5, <1>6, <1>7, <1>8, <1>9, <1>10
          DEF Jobs!JobsNext, Jobs!JobsProceed

-----------------------------------------------------------------------------
(* Policies: the form of a policy is set once, before anything is done with  *)
(* it, and no remediation passes its check without the consent of the form.  *)

PolicyHub ==
  [state : {"none", "on", "off"}, form : Policy!Form \cup {Policy!NoForm},
   results : SUBSET Policy!Estate, written : SUBSET Policy!Estate,
   asked : BOOLEAN, clicks : 0 .. 1]

PolicyScreen ==
  [shown : {"none", "on", "off"}, results : SUBSET Policy!Estate,
   manage : BOOLEAN, open : BOOLEAN, creating : BOOLEAN,
   slot : [{"toggle", "push", "remediate"} -> BOOLEAN]]

PolicyCall ==
  [kind : {"none", "visit", "create", "on", "off", "push", "remediate"},
   form : Policy!Form \cup {Policy!NoForm},
   step : {"asked", "checked", "load", "answered", "unread", "failed"},
   shown : {"none", "on", "off"}, results : SUBSET Policy!Estate]

\* What a policy that is not there keeps from happening.
Grounded(call) ==
  /\ call.kind \in {"on", "off", "push", "remediate"} => hub.state # "none"
  /\ call.shown # "none" => hub.state # "none"
  /\ call.step = "checked" => hub.state # "none"
  /\ call.kind = "remediate" /\ call.step = "checked" => hub.form.remediate

PolicyInv ==
  /\ hub \in PolicyHub
  /\ screen \in PolicyScreen
  /\ calls \in [Button -> PolicyCall]
  /\ hub.results # {} => hub.state # "none"
  /\ hub.results \subseteq Policy!Matched
  /\ Policy!WrittenOnlyIfAllowed
  /\ hub.written # {} => hub.state # "none"
  /\ screen.shown # "none" => hub.state # "none"
  /\ \A c \in Button : Grounded(calls[c])

LEMMA PolicyTyped == PolicyInv => Policy!PolicyTypeOK
  BY DEF PolicyInv, PolicyHub, PolicyScreen, PolicyCall, Policy!PolicyTypeOK

LEMMA SelectionHolds == PolicyInv => Policy!KeepsToForm
  BY DEF PolicyInv, Policy!KeepsToForm, Policy!ResultsInSelection, Policy!Matched,
         Policy!ScopeMatches, Policy!Scope, Policy!Estate

LEMMA NoPolicyCall == Policy!NoCall \in PolicyCall
  BY DEF Policy!NoCall, PolicyCall

LEMMA PolicyStarts == Policy!PolicyInit => PolicyInv
  <1> SUFFICES ASSUME Policy!PolicyInit PROVE PolicyInv
    OBVIOUS
  <1>1. hub \in PolicyHub /\ screen \in PolicyScreen
    BY DEF Policy!PolicyInit, PolicyHub, PolicyScreen
  <1>2. PICK v \in Button :
          calls = [c \in Button |-> IF c = v THEN [Policy!NoCall EXCEPT !.kind = "visit"]
                                    ELSE Policy!NoCall]
    BY DEF Policy!PolicyInit
  <1>3. [Policy!NoCall EXCEPT !.kind = "visit"] \in PolicyCall
    BY NoPolicyCall DEF PolicyCall
  <1>4. calls \in [Button -> PolicyCall]
    BY <1>2, <1>3, NoPolicyCall
  <1>5. Grounded(Policy!NoCall) /\ Grounded([Policy!NoCall EXCEPT !.kind = "visit"])
    BY DEF Grounded, Policy!NoCall
  <1>6. hub.results = {} /\ hub.written = {} /\ screen.shown = "none"
    BY DEF Policy!PolicyInit
  <1> QED BY <1>1, <1>2, <1>4, <1>5, <1>6 DEF PolicyInv, Policy!WrittenOnlyIfAllowed

\* A form that consents is about a rule of the platform.
LEMMA RemediableOnPlatform ==
  ASSUME hub \in PolicyHub, hub.form.remediate
  PROVE  Policy!Matched \subseteq {"aap"}
  <1>1. hub.form.remediate => hub.form.rule \in Policy!Remediable
    BY DEF PolicyHub, Policy!Form, Policy!NoForm
  <1> QED BY <1>1
          DEF Policy!Remediable, Policy!Matched, Policy!ScopeMatches, Policy!BuildRule, Policy!AapOnly,
              Policy!Estate

\* What only moves on in the calls, and shows what is there.
LEMMA CallsMove ==
  ASSUME PolicyInv, NEW c \in Button, NEW x \in PolicyCall,
         calls' = [calls EXCEPT ![c] = x],
         screen' \in PolicyScreen, screen'.shown # "none" => hub.state # "none",
         hub' \in PolicyHub, hub'.form = hub.form, hub'.state # "none" \/ hub.state = "none",
         hub'.results \subseteq hub.results \cup Policy!Matched,
         hub'.results # hub.results => hub'.state # "none",
         Policy!WrittenOnlyIfAllowed', hub'.written # hub.written => hub'.state # "none",
         Grounded(x)'
  PROVE  PolicyInv'
  <1>1. Policy!Matched' = Policy!Matched
    BY DEF Policy!Matched
  <1>2. \A d \in Button : Grounded(calls[d]) => Grounded(calls[d])' \/ d = c
    BY DEF Grounded, PolicyInv
  <1> QED BY <1>1, <1>2 DEF PolicyInv

LEMMA PolicyKeeps == PolicyInv /\ Policy!PolicyNext => PolicyInv'
  <1> SUFFICES ASSUME PolicyInv, Policy!PolicyNext PROVE PolicyInv'
    OBVIOUS
  <1>0. UNCHANGED hub => Policy!Matched' = Policy!Matched /\ Policy!WrittenOnlyIfAllowed'
                         /\ \A x : Grounded(x) => Grounded(x)'
    BY DEF Policy!Matched, PolicyInv, Policy!WrittenOnlyIfAllowed, Grounded
  <1>1. CASE Policy!OpenForm \/ Policy!CloseForm
    <2>1. /\ UNCHANGED <<hub, calls>> /\ screen' \in PolicyScreen
          /\ screen'.shown = screen.shown
      BY <1>1 DEF Policy!OpenForm, Policy!CloseForm, PolicyInv, PolicyScreen
    <2> QED BY <1>0, <2>1 DEF PolicyInv, Grounded
  <1>2. ASSUME NEW e \in Policy!Estate, Policy!Collected(e)
        PROVE  PolicyInv'
    <2>1. /\ UNCHANGED <<screen, calls>> /\ hub' \in PolicyHub
          /\ hub' = [hub EXCEPT !.results = @ \cup {e}]
          /\ e \in Policy!Matched /\ hub.state # "none"
      BY <1>2 DEF Policy!Collected, PolicyInv, PolicyHub
    <2>2. hub'.form = hub.form /\ hub'.state = hub.state /\ hub'.written = hub.written
          /\ hub'.results = hub.results \cup {e}
      BY <2>1 DEF PolicyInv, PolicyHub
    <2>3. Policy!Matched' = Policy!Matched /\ Policy!WrittenOnlyIfAllowed'
      BY <2>2 DEF Policy!Matched, PolicyInv, Policy!WrittenOnlyIfAllowed
    <2> QED BY <2>1, <2>2, <2>3 DEF PolicyInv, Grounded
  <1>3. ASSUME NEW c \in Button, NEW form \in Policy!Form, Policy!Create(c, form)
        PROVE  PolicyInv'
    <2> DEFINE x == [Policy!NoCall EXCEPT !.kind = "create", !.form = form]
    <2>1. x \in PolicyCall /\ Grounded(x)
      BY NoPolicyCall DEF PolicyCall, Grounded, Policy!NoCall
    <2>2. screen' \in PolicyScreen /\ screen'.shown = screen.shown
      BY <1>3 DEF Policy!Create, PolicyInv, PolicyScreen
    <2>3. UNCHANGED hub /\ calls' = [calls EXCEPT ![c] = x]
      BY <1>3 DEF Policy!Create, Policy!Calls
    <2> HIDE DEF x
    <2> QED BY <1>0, <2>1, <2>2, <2>3, CallsMove DEF PolicyInv
  <1>4. ASSUME NEW c \in Button, NEW kind \in {"on", "off", "push", "remediate"},
               Policy!Click(c, kind)
        PROVE  PolicyInv'
    <2> DEFINE x == [Policy!NoCall EXCEPT !.kind = kind]
    <2>1. hub.state # "none" /\ hub.clicks + 1 \in 0 .. 1
      <3>1. screen.shown # "none"
        BY <1>4 DEF Policy!Click, Policy!Offered
      <3>2. hub.clicks < 1 /\ hub.clicks \in 0 .. 1
        BY <1>4 DEF Policy!Click, PolicyInv, PolicyHub
      <3> QED BY <3>1, <3>2 DEF PolicyInv
    <2>2. /\ hub' \in PolicyHub /\ hub'.form = hub.form /\ hub'.state = hub.state
          /\ hub'.results = hub.results /\ hub'.written = hub.written
      BY <1>4, <2>1 DEF Policy!Click, PolicyInv, PolicyHub
    <2>3. x \in PolicyCall /\ Grounded(x)'
      BY <2>1, <2>2, NoPolicyCall DEF PolicyCall, Grounded, Policy!NoCall
    <2>4. screen' \in PolicyScreen /\ screen'.shown = screen.shown
      BY <1>4 DEF Policy!Click, Policy!SlotOf, PolicyInv, PolicyScreen
    <2>5. Policy!WrittenOnlyIfAllowed'
      BY <2>2 DEF PolicyInv, Policy!WrittenOnlyIfAllowed
    <2>6. calls' = [calls EXCEPT ![c] = x]
      BY <1>4 DEF Policy!Click, Policy!Calls
    <2> HIDE DEF x
    <2> QED BY <2>1, <2>2, <2>3, <2>4, <2>5, <2>6, CallsMove DEF PolicyInv
  <1>5. ASSUME NEW c \in Button, Policy!CreatePolicy(c)
        PROVE  PolicyInv'
    <2>1. /\ hub.results = {} /\ hub.written = {} /\ hub.state = "none" /\ screen.shown = "none"
          /\ calls[c] \in PolicyCall /\ Grounded(calls[c]) /\ calls[c].kind = "create"
          /\ hub' = [hub EXCEPT !.state = "on", !.form = calls[c].form, !.asked = calls[c].form.push]
      BY <1>5 DEF Policy!CreatePolicy, PolicyInv
    <2>2. calls[c].form.push \in BOOLEAN
      <3>1. \A form \in Policy!Form \cup {Policy!NoForm} : form.push \in BOOLEAN
        <4>1. \A form \in Policy!Form : form.push \in BOOLEAN
          BY DEF Policy!Form
        <4>2. Policy!NoForm.push \in BOOLEAN
          BY DEF Policy!NoForm
        <4> QED BY <4>1, <4>2
      <3> QED BY <2>1, <3>1 DEF PolicyCall
    <2>3. /\ hub' \in PolicyHub /\ hub'.state = "on" /\ hub'.results = {} /\ hub'.written = {}
      BY <2>1, <2>2 DEF PolicyInv, PolicyHub, PolicyCall
    <2>4. PICK x \in PolicyCall :
            x = [calls[c] EXCEPT !.step = IF calls[c].form.push THEN "checked" ELSE "load"]
      BY <2>1 DEF PolicyCall
    <2>7. Grounded(x)'
      BY <2>1, <2>3, <2>4 DEF PolicyCall, Grounded
    <2>5. calls' = [calls EXCEPT ![c] = x] /\ UNCHANGED screen
      BY <1>5, <2>4 DEF Policy!CreatePolicy, Policy!Advance, PolicyInv
    <2>6. \A d \in Button : d # c => Grounded(calls[d])'
      BY <2>1, <2>3, <2>5 DEF PolicyInv, Grounded
    <2> QED BY <2>1, <2>3, <2>4, <2>5, <2>6, <2>7 DEF PolicyInv, Policy!WrittenOnlyIfAllowed
  <1>6. ASSUME NEW c \in Button, Policy!Toggle(c)
        PROVE  PolicyInv'
    <2>1. hub.state # "none" /\ calls[c] \in PolicyCall /\ calls[c].kind \in {"on", "off"}
      BY <1>6 DEF Policy!Toggle, PolicyInv, Grounded
    <2>2. /\ hub' \in PolicyHub /\ hub'.form = hub.form /\ hub'.state = calls[c].kind
          /\ hub'.results = hub.results /\ hub'.written = hub.written
      BY <1>6, <2>1 DEF Policy!Toggle, PolicyInv, PolicyHub
    <2>3. PICK x \in PolicyCall : x = [calls[c] EXCEPT !.step = "answered", !.shown = calls[c].kind]
      BY <2>1 DEF PolicyCall
    <2>7. Grounded(x)'
      BY <2>1, <2>2, <2>3 DEF PolicyCall, Grounded
    <2>4. Policy!WrittenOnlyIfAllowed'
      BY <2>2 DEF PolicyInv, Policy!WrittenOnlyIfAllowed
    <2>5. calls' = [calls EXCEPT ![c] = x] /\ UNCHANGED screen
      BY <1>6, <2>3 DEF Policy!Toggle, PolicyInv
    <2> QED BY <2>1, <2>2, <2>3, <2>4, <2>5, CallsMove, <2>7 DEF PolicyInv
  <1>7. ASSUME NEW c \in Button, Policy!Check(c)
        PROVE  PolicyInv'
    <2>1. /\ hub.state # "none" /\ calls[c] \in PolicyCall /\ Grounded(calls[c])
          /\ calls[c].kind = "remediate" => hub.form.remediate
      BY <1>7 DEF Policy!Check, Policy!BuildRule, PolicyInv
    <2>2. /\ hub' \in PolicyHub /\ hub'.form = hub.form /\ hub'.state = hub.state
          /\ hub'.results = hub.results /\ hub'.written = hub.written
      BY <1>7 DEF Policy!Check, PolicyInv, PolicyHub
    <2>3. PICK x \in PolicyCall : x = [calls[c] EXCEPT !.step = "checked"]
      BY <2>1 DEF PolicyCall
    <2>7. Grounded(x)'
      BY <2>1, <2>2, <2>3 DEF PolicyCall, Grounded
    <2>4. Policy!WrittenOnlyIfAllowed'
      BY <2>2 DEF PolicyInv, Policy!WrittenOnlyIfAllowed
    <2>5. calls' = [calls EXCEPT ![c] = x] /\ UNCHANGED screen
      BY <1>7, <2>3 DEF Policy!Check, Policy!Advance, PolicyInv
    <2> QED BY <2>1, <2>2, <2>3, <2>4, <2>5, CallsMove, <2>7 DEF PolicyInv
  <1>8. ASSUME NEW c \in Button, Policy!Evaluate(c)
        PROVE  PolicyInv'
    <2>1. /\ hub.state # "none" /\ calls[c] \in PolicyCall /\ Grounded(calls[c])
          /\ calls[c].kind = "remediate" => hub.form.remediate
      BY <1>8 DEF Policy!Evaluate, PolicyInv, Grounded
    <2>2. Policy!Matched \subseteq Policy!Estate
      BY DEF Policy!Matched
    <2>3. /\ hub' \in PolicyHub /\ hub'.form = hub.form /\ hub'.state = hub.state
          /\ hub'.results \subseteq hub.results \cup Policy!Matched
          /\ hub'.written = IF calls[c].kind = "remediate" THEN hub.written \cup Policy!Matched
                            ELSE hub.written
      BY <1>8, <2>2 DEF Policy!Evaluate, PolicyInv, PolicyHub
    <2>4. PICK x \in PolicyCall : x = [calls[c] EXCEPT !.step = "load"]
      BY <2>1 DEF PolicyCall
    <2>7. Grounded(x)'
      BY <2>1, <2>3, <2>4 DEF PolicyCall, Grounded
    <2>5. Policy!WrittenOnlyIfAllowed'
      BY <2>1, <2>3, RemediableOnPlatform DEF PolicyInv, Policy!WrittenOnlyIfAllowed
    <2>6. calls' = [calls EXCEPT ![c] = x] /\ UNCHANGED screen
      BY <1>8, <2>4 DEF Policy!Evaluate, Policy!Advance, PolicyInv
    <2> QED BY <2>1, <2>3, <2>4, <2>5, <2>6, CallsMove, <2>7 DEF PolicyInv
  <1>9. ASSUME NEW c \in Button, Policy!Load(c) \/ Policy!Fail(c)
        PROVE  PolicyInv'
    <2>1. PICK x \in {[calls[c] EXCEPT !.step = "answered", !.shown = hub.state, !.results = hub.results],
                      [calls[c] EXCEPT !.step = "unread"], [calls[c] EXCEPT !.step = "failed"]} :
            calls' = [calls EXCEPT ![c] = x]
      BY <1>9 DEF Policy!Load, Policy!Fail, Policy!Advance, PolicyInv
    <2>2. calls[c] \in PolicyCall /\ Grounded(calls[c])
      BY DEF PolicyInv
    <2>3. x \in PolicyCall /\ Grounded(x)
      BY ZenonT(40), <2>2, PolicyInv DEF PolicyCall, PolicyInv, PolicyHub, Grounded
    <2>4. UNCHANGED <<hub, screen>>
      BY <1>9 DEF Policy!Load, Policy!Fail, Policy!Advance
    <2> QED BY <1>0, <2>1, <2>3, <2>4, CallsMove DEF PolicyInv
  <1>10. ASSUME NEW c \in Button, Policy!Land(c)
         PROVE  PolicyInv'
    <2>1. calls[c] \in PolicyCall /\ Grounded(calls[c])
      BY DEF PolicyInv
    <2>2. calls' = [calls EXCEPT ![c] = Policy!NoCall] /\ UNCHANGED hub
      BY <1>10 DEF Policy!Land
    <2>3. screen' \in PolicyScreen
      BY ZenonT(100), <1>10, <2>1 DEF Policy!Land, Policy!SlotOf, PolicyInv, PolicyScreen, PolicyCall
    <2>4. screen'.shown \in {screen.shown, calls[c].shown}
      BY <1>10 DEF Policy!Land, PolicyInv, PolicyScreen
    <2>5. Grounded(Policy!NoCall)
      BY DEF Grounded, Policy!NoCall
    <2> QED BY <1>0, <2>1, <2>2, <2>3, <2>4, <2>5, NoPolicyCall, CallsMove DEF PolicyInv, Grounded
  <1>11. ASSUME NEW c \in Button,
                \/ \E form \in Policy!Form : Policy!Create(c, form)
                \/ \E kind \in {"on", "off", "push", "remediate"} : Policy!Click(c, kind)
                \/ Policy!PolicyProceed(c)
         PROVE  PolicyInv'
    BY <1>3, <1>4, <1>5, <1>6, <1>7, <1>8, <1>9, <1>10, <1>11 DEF Policy!PolicyProceed
  <1> QED BY <1>1, <1>2, <1>11 DEF Policy!PolicyNext

-----------------------------------------------------------------------------
(* The settings: the preferences are loaded once, before the form can be     *)
(* edited; one save is under way at a time, while the form is disabled; a    *)
(* save of the fleet is counted before it is reported.                       *)

SettingsHub ==
  [row : Value \cup {None}, saved : Value \cup {None}, writes : 0 .. Bound,
   creating : SUBSET (Reader \cup Poll)]

SettingsScreen ==
  [form : Value \cup {None}, all : BOOLEAN, busy : BOOLEAN, seen : -1 .. Bound,
   reported : 0 .. Bound, draft : BOOLEAN, saving : BOOLEAN]

SettingsCall ==
  [kind : {"none", "prefs", "save", "table", "row"}, value : Value \cup {None}, all : BOOLEAN,
   step : {"asked", "write", "answered", "failed"}, writes : 0 .. Bound]

\* What a call under way has to do with the form, and with what was reported.
FitsForm(call) ==
  /\ call.kind = "prefs" => screen.form = None /\ ~screen.busy
  /\ call.kind = "save" => screen.busy /\ screen.form = call.value /\ screen.all = call.all
  /\ call.writes <= hub.writes
  /\ call.kind = "table" /\ call.step = "answered" => call.writes >= screen.reported

SettingsInv ==
  /\ hub \in SettingsHub
  /\ screen \in SettingsScreen
  /\ calls \in [Poll -> SettingsCall]
  /\ Settings!SavedPreferencesStay
  /\ screen.reported <= hub.writes
  /\ \A c \in Poll : FitsForm(calls[c])
  /\ \A c, d \in Poll :
       calls[c].kind \in {"prefs", "save"} /\ calls[d].kind = calls[c].kind => c = d

LEMMA SettingsTyped == SettingsInv => Settings!SettingsTypeOK
  BY DEF SettingsInv, SettingsHub, SettingsScreen, SettingsCall, Settings!SettingsTypeOK,
         Settings!MaybeValue

LEMMA SettingsCurrent == SettingsInv => Settings!AnswersAreCurrent
  BY DEF SettingsInv, FitsForm, Settings!AnswersAreCurrent, Settings!NoEditIsLost,
         Settings!ReloadIsFresh

LEMMA CallsOfSettings ==
  /\ Settings!NoSettingsCall \in SettingsCall
  /\ \A kind \in {"prefs", "save", "table", "row"} : Settings!Request(kind) \in SettingsCall
  <1>1. Settings!NoSettingsCall \in SettingsCall
    BY BoundAssumption DEF Settings!NoSettingsCall, SettingsCall
  <1>2. ASSUME NEW kind \in {"prefs", "save", "table", "row"}
        PROVE  Settings!Request(kind) \in SettingsCall
    BY <1>1 DEF Settings!Request, SettingsCall
  <1> QED BY <1>1, <1>2

LEMMA SettingsStarts == Settings!SettingsInit => SettingsInv
  <1> SUFFICES ASSUME Settings!SettingsInit PROVE SettingsInv
    OBVIOUS
  <1>1. hub \in SettingsHub /\ screen \in SettingsScreen
    BY BoundAssumption DEF Settings!SettingsInit, SettingsHub, SettingsScreen
  <1>2. PICK p \in Poll, t \in Poll :
          /\ p # t
          /\ calls = [c \in Poll |-> IF c = p THEN Settings!Request("prefs")
                                     ELSE IF c = t THEN Settings!Request("table")
                                     ELSE Settings!NoSettingsCall]
    BY DEF Settings!SettingsInit
  <1>3. calls \in [Poll -> SettingsCall]
    BY <1>2, CallsOfSettings
  <1>4. \A c \in Poll : /\ calls[c].kind = IF c = p THEN "prefs" ELSE IF c = t THEN "table" ELSE "none"
                        /\ calls[c].writes = 0 /\ calls[c].step = "asked"
    BY <1>2 DEF Settings!Request, Settings!NoSettingsCall
  <1>5. /\ hub.saved = None /\ hub.writes = 0 /\ screen.reported = 0 /\ screen.form = None
        /\ ~screen.busy
    BY DEF Settings!SettingsInit
  <1> QED BY <1>1, <1>3, <1>4, <1>5 DEF SettingsInv, FitsForm, Settings!SavedPreferencesStay

\* One call moves on; no second one asks for the preferences, or saves them.
LEMMA OneMoves ==
  ASSUME SettingsInv, NEW c \in Poll, NEW x \in SettingsCall,
         calls' = [calls EXCEPT ![c] = x],
         x.kind \in {"prefs", "save"} =>
           \A d \in Poll : calls[d].kind = x.kind => c = d,
         hub' \in SettingsHub, screen' \in SettingsScreen,
         screen'.reported <= hub'.writes, Settings!SavedPreferencesStay',
         FitsForm(x)', \A d \in Poll : d # c => FitsForm(calls[d])'
  PROVE  SettingsInv'
  <1>1. \A d \in Poll : calls'[d] = IF d = c THEN x ELSE calls[d]
    BY DEF SettingsInv
  <1>2. calls' \in [Poll -> SettingsCall]
    BY DEF SettingsInv
  <1>3. \A d \in Poll : FitsForm(calls[d])'
    BY <1>1
  <1>4. \A d, f \in Poll :
          calls'[d].kind \in {"prefs", "save"} /\ calls'[f].kind = calls'[d].kind => d = f
    BY <1>1 DEF SettingsInv
  <1> QED BY <1>2, <1>3, <1>4 DEF SettingsInv

LEMMA SettingsKeeps == SettingsInv /\ Settings!SettingsNext => SettingsInv'
  <1> SUFFICES ASSUME SettingsInv, Settings!SettingsNext PROVE SettingsInv'
    OBVIOUS
  <1>0. hub \in SettingsHub /\ screen \in SettingsScreen /\ \A c \in Poll : calls[c] \in SettingsCall
    BY DEF SettingsInv
  <1>w. hub.writes \in Int /\ hub.writes >= hub.writes
    BY <1>0 DEF SettingsHub
  <1>1. CASE \E v \in Value : Settings!Edit(v)
    <2>1. PICK v \in Value : Settings!Edit(v)
      BY <1>1
    <2>2. /\ UNCHANGED <<hub, calls>> /\ screen' \in SettingsScreen
          /\ screen.form # None /\ ~screen.busy /\ screen'.busy = screen.busy
          /\ screen'.reported = screen.reported
      BY <2>1, <1>0 DEF Settings!Edit, SettingsScreen
    <2> QED BY <2>2 DEF SettingsInv, FitsForm, Settings!SavedPreferencesStay
  <1>2. CASE Settings!CheckAll \/ Settings!EditRow
    <2>1. /\ UNCHANGED <<hub, calls>> /\ screen' \in SettingsScreen
          /\ screen'.busy = screen.busy /\ screen'.reported = screen.reported
          /\ screen'.form = screen.form /\ (screen'.all = screen.all \/ ~screen.busy)
      BY <1>2, <1>0 DEF Settings!CheckAll, Settings!EditRow, SettingsScreen
    <2> QED BY <2>1 DEF SettingsInv, FitsForm, Settings!SavedPreferencesStay
  <1>3. ASSUME NEW x \in Reader \cup Poll, Settings!LookUp(x) \/ Settings!Insert(x)
        PROVE  hub' \in SettingsHub /\ hub'.writes = hub.writes /\ Settings!SavedPreferencesStay'
    BY ZenonT(40), <1>0, <1>3, ValueAssumption
       DEF Settings!LookUp, Settings!Insert, SettingsInv, SettingsHub, Settings!SavedPreferencesStay
  <1>4. ASSUME NEW r \in Reader, Settings!ReaderReads(r)
        PROVE  SettingsInv'
    BY <1>3, <1>4 DEF Settings!ReaderReads, SettingsInv, FitsForm
  <1>5. ASSUME NEW c \in Poll, Settings!Save(c)
        PROVE  SettingsInv'
    <2>1. /\ screen.form # None /\ ~screen.busy
          /\ screen' \in SettingsScreen /\ screen' = [screen EXCEPT !.busy = TRUE]
          /\ UNCHANGED hub
      BY <1>0, <1>5 DEF Settings!Save, SettingsScreen
    <2>2. PICK x \in SettingsCall :
             /\ x = [Settings!Request("save") EXCEPT !.value = screen.form, !.all = screen.all]
      <3>1. Settings!Request("save") \in SettingsCall
        BY CallsOfSettings
      <3>2. screen.form \in Value \cup {None} /\ screen.all \in BOOLEAN
        BY <1>0 DEF SettingsScreen
      <3> QED BY <3>1, <3>2 DEF SettingsCall
    <2>3. calls' = [calls EXCEPT ![c] = x]
      BY <1>5, <2>2 DEF Settings!Save, Settings!Ask
    <2>4. /\ x.kind = "save" /\ x.value = screen.form /\ x.all = screen.all /\ x.writes = 0
      BY <2>2 DEF Settings!NoSettingsCall, Settings!Request
    <2>5. /\ screen'.form = screen.form /\ screen'.all = screen.all /\ screen'.busy
          /\ screen'.reported = screen.reported
      BY <1>0, <2>1 DEF SettingsScreen
    <2>6. \A d \in Poll : calls[d].kind \notin {"save", "prefs"}
      BY <2>1 DEF SettingsInv, FitsForm
    <2>7. FitsForm(x)' /\ \A d \in Poll : d # c => FitsForm(calls[d])'
      BY <1>0, <2>1, <2>3, <2>4, <2>5, <2>6 DEF SettingsInv, FitsForm, SettingsHub
    <2> QED BY <2>1, <2>3, <2>4, <2>5, <2>6, <2>7, OneMoves
            DEF SettingsInv, Settings!SavedPreferencesStay
  <1>6. ASSUME NEW c \in Poll, Settings!SaveRow(c)
        PROVE  SettingsInv'
    <2>1. PICK x \in SettingsCall : x = Settings!Request("row")
      BY CallsOfSettings
    <2>2. /\ UNCHANGED hub /\ calls' = [calls EXCEPT ![c] = x]
          /\ screen' \in SettingsScreen /\ screen' = [screen EXCEPT !.saving = TRUE]
      BY <1>0, <1>6, <2>1 DEF Settings!SaveRow, Settings!Ask, SettingsScreen
    <2>3. x.kind = "row" /\ x.writes = 0
      BY <2>1 DEF Settings!NoSettingsCall, Settings!Request
    <2>4. /\ screen'.form = screen.form /\ screen'.all = screen.all /\ screen'.busy = screen.busy
          /\ screen'.reported = screen.reported
      BY <1>0, <2>2 DEF SettingsScreen
    <2>5. FitsForm(x)' /\ \A d \in Poll : d # c => FitsForm(calls[d])'
      BY <1>0, <2>2, <2>3, <2>4 DEF SettingsInv, FitsForm, SettingsHub
    <2> QED BY <2>2, <2>3, <2>4, <2>5, <1>0, OneMoves
            DEF SettingsInv, Settings!SavedPreferencesStay
  \* Where only a call moves on, and the form stays.
  <1>7. ASSUME NEW c \in Poll, NEW x \in SettingsCall, calls' = [calls EXCEPT ![c] = x],
               x.kind = calls[c].kind, x.all = calls[c].all,
               x.value = calls[c].value \/ x.kind # "save",
               x.writes = calls[c].writes \/ x.writes = hub'.writes,
               calls[c].step # "answered",
               x.kind = "table" /\ x.step = "answered" => x.writes = hub'.writes,
               UNCHANGED screen, hub' \in SettingsHub, hub'.writes >= hub.writes,
               Settings!SavedPreferencesStay'
        PROVE  SettingsInv'
    <2>1. \A d \in Poll : calls[d].writes \in Int /\ calls[d].writes <= hub.writes
      BY <1>0 DEF SettingsInv, FitsForm, SettingsCall
    <2>2. hub.writes \in Int /\ hub'.writes \in Int /\ screen.reported \in Int
          /\ screen.reported <= hub.writes
      BY <1>0, <1>7 DEF SettingsHub, SettingsScreen, SettingsInv
    <2>3. FitsForm(x)' /\ \A d \in Poll : d # c => FitsForm(calls[d])'
      BY <1>0, <1>7, <2>1, <2>2 DEF SettingsInv, FitsForm
    <2>4. x.kind \in {"prefs", "save"} => \A d \in Poll : calls[d].kind = x.kind => c = d
      BY <1>7 DEF SettingsInv
    <2>5. screen' \in SettingsScreen /\ screen'.reported <= hub'.writes
      BY <1>0, <1>7, <2>2
    <2> QED BY <1>7, <2>3, <2>4, <2>5, OneMoves
  <1>8. ASSUME NEW c \in Poll, Settings!FindRow(c)
        PROVE  SettingsInv'
    <2>1. CASE UNCHANGED calls
      BY <1>3, <1>8, <2>1 DEF Settings!FindRow, SettingsInv, FitsForm
    <2>2. CASE Settings!Insert(c) /\ calls' = [calls EXCEPT ![c].step = "failed"]
      <3>1. PICK x \in SettingsCall : x = [calls[c] EXCEPT !.step = "failed"]
        BY <1>0 DEF SettingsCall
      <3>2. /\ calls[c].kind \in {"prefs", "save"} /\ calls[c].step = "asked" /\ UNCHANGED screen
        BY <1>8 DEF Settings!FindRow, Settings!NeedsRow
      <3>3. /\ x.kind = calls[c].kind /\ x.all = calls[c].all /\ x.value = calls[c].value
            /\ x.writes = calls[c].writes
        BY <1>0, <3>1 DEF SettingsCall
      <3>4. calls' = [calls EXCEPT ![c] = x]
        BY <2>2, <3>1
      <3>5. hub' \in SettingsHub /\ hub'.writes = hub.writes /\ Settings!SavedPreferencesStay'
        BY <1>3, <2>2
      <3>6. x.kind # "table" /\ calls[c].step # "answered"
        BY <3>2, <3>3
      <3>7. hub'.writes >= hub.writes
        BY <1>w, <3>5
      <3> QED BY <1>7, <3>2, <3>3, <3>4, <3>5, <3>6, <3>7
    <2> QED BY <1>8, <2>1, <2>2 DEF Settings!FindRow
  <1>9. ASSUME NEW c \in Poll, Settings!ReadPrefs(c)
        PROVE  SettingsInv'
    <2>1. PICK x \in SettingsCall :
            x = IF calls[c].kind = "save" THEN [calls[c] EXCEPT !.step = "write"]
                ELSE [calls[c] EXCEPT !.step = "answered", !.value = hub.row]
      BY <1>0 DEF SettingsCall, SettingsHub
    <2>2. /\ calls[c].kind \in {"prefs", "save"} /\ calls[c].step = "asked"
          /\ UNCHANGED <<hub, screen>>
      BY <1>9 DEF Settings!ReadPrefs, Settings!NeedsRow
    <2>3. /\ x.kind = calls[c].kind /\ x.all = calls[c].all /\ x.writes = calls[c].writes
          /\ x.value = calls[c].value \/ x.kind # "save"
      BY <1>0, <2>1 DEF SettingsCall
    <2>4. calls' = [calls EXCEPT ![c] = x]
      BY <1>9, <2>1 DEF Settings!ReadPrefs
    <2>5. Settings!SavedPreferencesStay'
      BY <2>2 DEF SettingsInv, Settings!SavedPreferencesStay
    <2>6. x.kind # "table" /\ calls[c].step # "answered"
      BY <2>2, <2>3
    <2>7. hub' \in SettingsHub /\ hub'.writes >= hub.writes
      BY <1>0, <1>w, <2>2
    <2> QED BY <1>7, <2>2, <2>3, <2>4, <2>5, <2>6, <2>7
  <1>10. ASSUME NEW c \in Poll, Settings!Update(c)
         PROVE  SettingsInv'
    <2>1. /\ hub' \in SettingsHub /\ hub'.row = calls[c].value /\ hub'.saved = calls[c].value
          /\ hub'.writes \in {hub.writes, hub.writes + 1} /\ UNCHANGED screen
      <3>1. calls[c].value \in Value \cup {None}
        BY <1>0 DEF SettingsCall
      <3>2. PICK n \in {hub.writes, hub.writes + 1} :
              /\ n = IF calls[c].all THEN hub.writes + 1 ELSE hub.writes
              /\ hub' = [hub EXCEPT !.row = calls[c].value, !.saved = calls[c].value, !.writes = n]
        BY <1>10 DEF Settings!Update
      <3>3. hub.writes \in 0 .. Bound /\ (calls[c].all => hub.writes < Bound)
        BY <1>0, <1>10 DEF Settings!Update, SettingsHub
      <3>4. n \in 0 .. Bound
        BY <3>2, <3>3, BoundAssumption
      <3>5. UNCHANGED screen
        BY <1>10 DEF Settings!Update
      <3> QED BY <1>0, <3>1, <3>2, <3>4, <3>5 DEF SettingsHub
    <2>2. PICK x \in SettingsCall : x = [calls[c] EXCEPT !.step = "answered", !.writes = hub'.writes]
      BY <1>0, <2>1 DEF SettingsCall, SettingsHub
    <2>3. /\ x.kind = calls[c].kind /\ x.all = calls[c].all /\ x.writes = hub'.writes
          /\ x.value = calls[c].value
      BY <1>0, <2>2 DEF SettingsCall
    <2>4. calls' = [calls EXCEPT ![c] = x] /\ calls[c].step = "write"
      <3>1. /\ calls' = [calls EXCEPT ![c].step = "answered", ![c].writes = hub'.writes]
            /\ calls[c].step = "write"
        BY <1>10 DEF Settings!Update
      <3> QED BY <1>0, <2>2, <3>1
    <2>5. Settings!SavedPreferencesStay'
      BY <2>1 DEF Settings!SavedPreferencesStay
    <2>6. hub'.writes >= hub.writes
      BY <1>0, <2>1 DEF SettingsHub
    <2> QED BY <1>7, <2>1, <2>3, <2>4, <2>5, <2>6
  <1>11. ASSUME NEW c \in Poll, Settings!UpdateRow(c) \/ Settings!ReadTable(c)
         PROVE  SettingsInv'
    <2>1. /\ hub' \in SettingsHub /\ hub'.row = hub.row /\ hub'.saved = hub.saved
          /\ hub'.writes \in {hub.writes, hub.writes + 1} /\ UNCHANGED screen
      BY <1>0, <1>11, BoundAssumption DEF Settings!UpdateRow, Settings!ReadTable, SettingsHub
    <2>2. PICK x \in SettingsCall : x = [calls[c] EXCEPT !.step = "answered", !.writes = hub'.writes]
      BY <1>0, <2>1 DEF SettingsCall, SettingsHub
    <2>3. /\ x.kind = calls[c].kind /\ x.all = calls[c].all /\ x.writes = hub'.writes
          /\ x.value = calls[c].value
      BY <1>0, <2>2 DEF SettingsCall
    <2>4. calls' = [calls EXCEPT ![c] = x] /\ calls[c].step = "asked"
      BY <1>11, <2>2 DEF Settings!UpdateRow, Settings!ReadTable
    <2>5. Settings!SavedPreferencesStay'
      BY <2>1 DEF SettingsInv, Settings!SavedPreferencesStay
    <2>6. hub'.writes >= hub.writes
      BY <1>0, <2>1 DEF SettingsHub
    <2> QED BY <1>7, <2>1, <2>3, <2>4, <2>5, <2>6
  <1>12. ASSUME NEW c \in Poll, Settings!Refused(c)
         PROVE  SettingsInv'
    <2>1. PICK x \in SettingsCall : x = [calls[c] EXCEPT !.step = "failed"]
      BY <1>0 DEF SettingsCall
    <2>2. /\ x.kind = calls[c].kind /\ x.all = calls[c].all /\ x.writes = calls[c].writes
          /\ x.value = calls[c].value /\ x.step = "failed"
      BY <1>0, <2>1 DEF SettingsCall
    <2>3. calls' = [calls EXCEPT ![c] = x] /\ calls[c].step # "answered"
          /\ UNCHANGED <<hub, screen>>
      BY <1>12, <2>1 DEF Settings!Refused
    <2>4. Settings!SavedPreferencesStay'
      BY <2>3 DEF SettingsInv, Settings!SavedPreferencesStay
    <2>5. hub' \in SettingsHub /\ hub'.writes >= hub.writes
      BY <1>0, <1>w, <2>3
    <2> QED BY <1>7, <2>2, <2>3, <2>4, <2>5
  <1>13. ASSUME NEW c \in Poll, Settings!SaveReturns(c)
         PROVE  SettingsInv'
    <2>1. /\ UNCHANGED hub /\ screen' \in SettingsScreen
          /\ calls[c].kind = "save"
          /\ screen'.reported = IF calls[c].all THEN calls[c].writes ELSE screen.reported
      BY <1>0, <1>13 DEF Settings!SaveReturns, SettingsScreen, SettingsCall
    <2>2. /\ Settings!NoSettingsCall.kind = "none" /\ Settings!NoSettingsCall.writes = 0
          /\ Settings!Request("table").kind = "table" /\ Settings!Request("table").writes = 0
          /\ Settings!Request("table").step = "asked"
      BY DEF Settings!NoSettingsCall, Settings!Request
    <2>3. \A d \in Poll : calls'[d] = IF d = c THEN Settings!Request("table")
                                      ELSE IF calls[d].kind = "table" THEN Settings!NoSettingsCall
                                      ELSE calls[d]
      BY <1>13 DEF Settings!SaveReturns, Settings!Reloaded
    <2>4. calls' \in [Poll -> SettingsCall]
      BY <1>0, <1>13, CallsOfSettings DEF Settings!SaveReturns, Settings!Reloaded
    <2>5. \A d \in Poll : d # c => calls[d].kind \notin {"save", "prefs"}
      BY <2>1 DEF SettingsInv, FitsForm
    <2>6. \A d \in Poll : FitsForm(calls[d])'
      BY <1>0, <2>1, <2>2, <2>3, <2>5 DEF SettingsInv, FitsForm, SettingsHub
    <2>7. screen'.reported <= hub'.writes
      BY <2>1 DEF SettingsInv, FitsForm
    <2>8. \A d, f \in Poll :
            calls'[d].kind \in {"prefs", "save"} /\ calls'[f].kind = calls'[d].kind => d = f
      BY <2>2, <2>3, <2>5
    <2> QED BY <2>1, <2>4, <2>6, <2>7, <2>8, <1>0 DEF SettingsInv, Settings!SavedPreferencesStay
  <1>14. ASSUME NEW c \in Poll, Settings!Returns(c)
         PROVE  SettingsInv'
    <2>1. UNCHANGED hub /\ calls' = [calls EXCEPT ![c] = Settings!NoSettingsCall]
      BY <1>14 DEF Settings!Returns
    <2>2. /\ screen' \in SettingsScreen
          /\ screen'.reported = screen.reported /\ screen'.all = screen.all
          /\ screen.busy /\ calls[c].kind # "save" => screen'.busy
          /\ ~screen.busy => ~screen'.busy
          /\ screen'.form = screen.form \/ calls[c].kind = "prefs"
      <3> DEFINE form == IF calls[c].kind = "prefs" /\ calls[c].step = "answered"
                         THEN calls[c].value ELSE screen.form
                 busy == screen.busy /\ calls[c].kind # "save"
                 seen == IF calls[c].kind \in {"table", "row"} /\ calls[c].step = "answered"
                         THEN calls[c].writes ELSE screen.seen
                 draft == screen.draft /\ ~(calls[c].kind = "row" /\ calls[c].step = "answered")
                 saving == screen.saving /\ calls[c].kind # "row"
      <3>1. screen' = [screen EXCEPT !.form = form, !.busy = busy, !.seen = seen,
                                     !.draft = draft, !.saving = saving]
        BY <1>14 DEF Settings!Returns
      <3>2. calls[c].value \in Value \cup {None} /\ calls[c].writes \in -1 .. Bound
        BY <1>0 DEF SettingsCall
      <3>3. /\ form \in Value \cup {None} /\ (form = screen.form \/ calls[c].kind = "prefs")
            /\ seen \in -1 .. Bound
        BY <1>0, <3>2 DEF SettingsScreen
      <3>4. busy \in BOOLEAN /\ draft \in BOOLEAN /\ saving \in BOOLEAN
        OBVIOUS
      <3>5. (screen.busy /\ calls[c].kind # "save" => busy) /\ (~screen.busy => ~busy)
        OBVIOUS
      <3> HIDE DEF form, busy, seen, draft, saving
      <3>6. screen'.busy = busy /\ screen'.form = form
        BY <1>0, <3>1 DEF SettingsScreen
      <3>7. screen' \in SettingsScreen /\ screen'.reported = screen.reported /\ screen'.all = screen.all
        BY <1>0, <3>1, <3>3, <3>4 DEF SettingsScreen
      <3> QED BY <3>3, <3>5, <3>6, <3>7
    <2>3. Settings!NoSettingsCall.kind = "none" /\ Settings!NoSettingsCall.writes = 0
      BY DEF Settings!NoSettingsCall
    <2>4. \A d \in Poll : d # c => FitsForm(calls[d])'
      <3> SUFFICES ASSUME NEW d \in Poll, d # c PROVE FitsForm(calls[d])'
        OBVIOUS
      <3>1. calls'[d] = calls[d] /\ FitsForm(calls[d])
        BY <2>1 DEF SettingsInv
      <3>2. calls[d].kind = "save" => calls[c].kind \notin {"save", "prefs"}
        BY DEF SettingsInv, FitsForm
      <3>3. calls[d].kind = "prefs" => calls[c].kind # "prefs"
        BY DEF SettingsInv
      <3> QED BY <2>1, <2>2, <3>1, <3>2, <3>3 DEF FitsForm
    <2>5. FitsForm(Settings!NoSettingsCall)'
      BY <1>0, <2>1, <2>3 DEF FitsForm, SettingsHub
    <2>6. Settings!SavedPreferencesStay' /\ screen'.reported <= hub'.writes
      BY <2>1, <2>2 DEF SettingsInv, Settings!SavedPreferencesStay
    <2> QED BY <1>0, <2>1, <2>2, <2>3, <2>4, <2>5, <2>6, CallsOfSettings, OneMoves
  <1>15. ASSUME NEW c \in Poll, Settings!Save(c) \/ Settings!SaveRow(c) \/ Settings!SettingsProceed(c)
         PROVE  SettingsInv'
    BY <1>5, <1>6, <1>8, <1>9, <1>10, <1>11, <1>12, <1>13, <1>14, <1>15 DEF Settings!SettingsProceed
  <1> QED BY <1>1, <1>2, <1>4, <1>15 DEF Settings!SettingsNext

-----------------------------------------------------------------------------
(* Signing in: what sessions know of the account, and that a user is there   *)
(* only after the check of the mount.                                        *)

SignInHub ==
  [now : 0 .. Bound, validAfter : -1 .. Bound, active : BOOLEAN, revision : 0 .. Bound]

Tab == [cookie : SignIn!Cookie, user : BOOLEAN, ready : BOOLEAN]

SignInCall ==
  [step : {"none", "asked", "checked", "issued", "who", "answered", "failed"},
   session : SignIn!Cookie, ok : BOOLEAN]

\* A session in the light of the account.
Fits(s) ==
  s # None =>
    /\ s.iat <= hub.now
    /\ s.revision <= hub.revision
    /\ s.revision = hub.revision => s.iat >= hub.validAfter
    /\ s.revision < hub.revision => s.iat <= hub.validAfter

\* The steps that a request of each kind can be at.
Steps(k) ==
  {"none", "asked", "failed"} \cup
    CASE k = "me"     -> {"answered"}
      [] k = "login"  -> {"checked", "issued", "who", "answered"}
      [] k = "change" -> {"checked", "issued"}
      [] k = "logout" -> {"issued"}

\* A tab and its requests: no page is rendered before the check of the mount has
\* returned, and nobody signs in who is.
TabOK(tab, requests) ==
  /\ Fits(tab.cookie)
  /\ tab.ready => requests["me"].step = "none"
  /\ tab.user => tab.ready /\ requests["login"].step = "none"
  /\ \A k \in SignIn!Kind :
       /\ Fits(requests[k].session)
       /\ requests[k].step \in Steps(k)
       /\ ~tab.ready /\ k # "me" => requests[k].step = "none"

SignInInv ==
  /\ hub \in SignInHub
  /\ screen \in [Browser -> Tab]
  /\ calls \in [Browser -> [SignIn!Kind -> SignInCall]]
  /\ hub.validAfter <= hub.now
  /\ \A b \in Browser : TabOK(screen[b], calls[b])

LEMMA SignInTyped == SignInInv => SignIn!SignInTypeOK
  BY DEF SignInInv, SignInHub, Tab, SignInCall, SignIn!SignInTypeOK

LEMMA NoRequestFits == SignIn!NoRequest \in SignInCall
  BY DEF SignIn!NoRequest, SignInCall, SignIn!Cookie

LEMMA SentFits ==
  ASSUME SignInInv, NEW b \in Browser
  PROVE  /\ SignIn!Sent(b) \in SignInCall
         /\ SignIn!Sent(b).step = "asked" /\ SignIn!Sent(b).session = screen[b].cookie
  <1>1. screen[b].cookie \in SignIn!Cookie
    BY DEF SignInInv, Tab
  <1> QED BY <1>1 DEF SignIn!Sent, SignIn!NoRequest, SignInCall

LEMMA SignInStarts == SignIn!SignInInit => SignInInv
  <1> SUFFICES ASSUME SignIn!SignInInit PROVE SignInInv
    OBVIOUS
  <1>1. [iat |-> 0, revision |-> 0] \in SignIn!Session
    BY BoundAssumption DEF SignIn!Session
  <1>2. hub \in SignInHub /\ hub.validAfter <= hub.now
    BY BoundAssumption DEF SignIn!SignInInit, SignInHub
  <1>3. screen \in [Browser -> Tab]
    BY <1>1 DEF SignIn!SignInInit, Tab, SignIn!Cookie
  <1>4. \A b \in Browser : /\ screen[b].cookie \in {None, [iat |-> 0, revision |-> 0]}
                           /\ ~screen[b].user /\ ~screen[b].ready
    BY DEF SignIn!SignInInit
  <1>5. \A b \in Browser : Fits(screen[b].cookie)
    BY <1>4 DEF SignIn!SignInInit, Fits
  <1>6. \A b \in Browser :
          /\ SignIn!Sent(b) \in SignInCall
          /\ SignIn!Sent(b).step = "asked" /\ SignIn!Sent(b).session = screen[b].cookie
    BY <1>3 DEF SignIn!Sent, SignIn!NoRequest, SignInCall, Tab
  <1>7. calls \in [Browser -> [SignIn!Kind -> SignInCall]]
    BY <1>6, NoRequestFits DEF SignIn!SignInInit
  <1>8. \A b \in Browser, k \in SignIn!Kind :
          calls[b][k] = IF k = "me" THEN SignIn!Sent(b) ELSE SignIn!NoRequest
    BY DEF SignIn!SignInInit
  <1>9. SignIn!NoRequest.step = "none" /\ Fits(SignIn!NoRequest.session)
    BY DEF SignIn!NoRequest, Fits
  <1>10. \A b \in Browser : TabOK(screen[b], calls[b])
    BY <1>4, <1>5, <1>6, <1>8, <1>9 DEF TabOK, Steps, SignIn!Kind
  <1> QED BY <1>2, <1>3, <1>7, <1>10 DEF SignInInv

\* In these states sessions follow the account.
LEMMA SessionsFit == SignInInv => SignIn!SessionsFollowAccount
  <1> SUFFICES ASSUME SignInInv, NEW s \in SignIn!Issued \ {None}
               PROVE  /\ s.revision = hub.revision => SignIn!StillValid(s)
                      /\ s.revision < hub.revision /\ SignIn!Accepted(s) => s.iat = hub.validAfter
    BY DEF SignIn!SessionsFollowAccount, SignIn!NewSessionsPass, SignIn!OldSessionsEnd
  <1>1. "login" \in SignIn!Kind /\ "change" \in SignIn!Kind
    BY DEF SignIn!Kind
  <1>2. Fits(s) /\ s \in SignIn!Cookie
    BY <1>1 DEF SignInInv, TabOK, Tab, SignInCall, SignIn!Issued
  <1>3. hub.validAfter \in Int /\ hub.now \in Int /\ hub.revision \in Int
    BY DEF SignInInv, SignInHub
  <1> QED BY <1>2, <1>3
          DEF Fits, SignIn!StillValid, SignIn!Accepted, SignIn!Cookie, SignIn!Session

\* The account changes, and every session still fits.
LEMMA AccountMoves ==
  ASSUME SignInInv, UNCHANGED <<screen, calls>>, hub' \in SignInHub, hub'.validAfter <= hub'.now,
         \A s \in SignIn!Cookie : Fits(s) => Fits(s)'
  PROVE  SignInInv'
  <1>1. \A b \in Browser : TabOK(screen[b], calls[b]) => TabOK(screen[b], calls[b])'
    BY DEF TabOK, SignInInv, Tab, SignInCall
  <1> QED BY <1>1 DEF SignInInv

\* One request of a browser moves on, and perhaps its tab.
LEMMA RequestMoves ==
  ASSUME SignInInv, NEW b \in Browser, NEW k \in SignIn!Kind, NEW x \in SignInCall,
         calls' = [calls EXCEPT ![b][k] = x],
         NEW tab \in Tab, screen' = [screen EXCEPT ![b] = tab],
         hub' \in SignInHub, hub'.validAfter <= hub'.now,
         \A s \in SignIn!Cookie : Fits(s) => Fits(s)',
         Fits(x.session)', Fits(tab.cookie)', x.step \in Steps(k),
         tab.ready => IF k = "me" THEN x.step = "none" ELSE screen[b].ready \/ calls[b]["me"].step = "none",
         tab.user => tab.ready /\ IF k = "login" THEN x.step = "none" ELSE calls[b]["login"].step = "none",
         ~tab.ready /\ k # "me" => x.step = "none",
         screen[b].ready => tab.ready
  PROVE  SignInInv'
  <1>1. \A d \in Browser \ {b} : screen'[d] = screen[d] /\ calls'[d] = calls[d]
    BY DEF SignInInv
  <1>2. screen'[b] = tab /\ \A j \in SignIn!Kind : calls'[b][j] = IF j = k THEN x ELSE calls[b][j]
    BY DEF SignInInv
  <1>3. screen' \in [Browser -> Tab] /\ calls' \in [Browser -> [SignIn!Kind -> SignInCall]]
    BY DEF SignInInv
  <1>4. \A d \in Browser \ {b} : TabOK(screen[d], calls[d])'
    BY <1>1 DEF TabOK, SignInInv, Tab, SignInCall
  <1>5. \A j \in SignIn!Kind : Fits(calls[b][j].session)'
    BY <1>2 DEF SignInInv, TabOK, SignInCall
  <1>6. "me" \in SignIn!Kind /\ "login" \in SignIn!Kind
    BY DEF SignIn!Kind
  <1>7. TabOK(screen[b], calls[b])'
    BY ZenonT(40), <1>2, <1>5, <1>6 DEF SignInInv, TabOK, Steps
  <1> QED BY <1>3, <1>4, <1>7 DEF SignInInv

LEMMA SignInKeeps == SignInInv /\ SignIn!SignInNext => SignInInv'
  <1> SUFFICES ASSUME SignInInv, SignIn!SignInNext PROVE SignInInv'
    OBVIOUS
  <1>0. /\ hub \in SignInHub /\ hub.validAfter <= hub.now
        /\ \A b \in Browser :
             /\ screen[b] \in Tab
             /\ TabOK(screen[b], calls[b])
             /\ \A k \in SignIn!Kind : calls[b][k] \in SignInCall
    BY DEF SignInInv
  <1>1. CASE SignIn!SecondPasses
    <2>1. hub' = [hub EXCEPT !.now = @ + 1] /\ hub.now < Bound /\ UNCHANGED <<screen, calls>>
      BY <1>1 DEF SignIn!SecondPasses
    <2>2. hub' \in SignInHub /\ hub'.validAfter <= hub'.now
      BY <1>0, <2>1, BoundAssumption DEF SignInHub
    <2>3. /\ hub'.now = hub.now + 1 /\ hub'.validAfter = hub.validAfter
          /\ hub'.revision = hub.revision /\ hub.now \in Int
      BY <1>0, <2>1 DEF SignInHub
    <2>4. \A s \in SignIn!Cookie : Fits(s) => Fits(s)'
      BY <2>3 DEF Fits, SignIn!Cookie, SignIn!Session
    <2> QED BY <2>1, <2>2, <2>4, AccountMoves
  \* Whatever ends sessions.
  <1>2. ASSUME NEW active \in BOOLEAN, hub.revision < Bound,
               hub' = [hub EXCEPT !.active = active, !.validAfter = hub.now, !.revision = @ + 1]
        PROVE  /\ hub' \in SignInHub /\ hub'.validAfter <= hub'.now
               /\ \A s \in SignIn!Cookie : Fits(s) => Fits(s)'
    <2>1. hub' \in SignInHub /\ hub'.validAfter <= hub'.now
      <3>1. hub.now \in 0 .. Bound /\ hub.now \in -1 .. Bound /\ hub.revision + 1 \in 0 .. Bound
        BY <1>0, <1>2, BoundAssumption DEF SignInHub
      <3>2. hub' \in SignInHub
        BY <1>0, <1>2, <3>1 DEF SignInHub
      <3>3. hub'.validAfter = hub.now /\ hub'.now = hub.now
        BY <1>0, <1>2 DEF SignInHub
      <3> QED BY <3>1, <3>2, <3>3
    <2>2. /\ hub'.now = hub.now /\ hub'.validAfter = hub.now
          /\ hub'.revision = hub.revision + 1 /\ hub.revision \in Int /\ hub.now \in Int
      BY <1>0, <1>2 DEF SignInHub
    <2>3. \A s \in SignIn!Cookie : Fits(s) => Fits(s)'
      BY <2>2 DEF Fits, SignIn!Cookie, SignIn!Session
    <2> QED BY <2>1, <2>3
  <1>3. hub.active \in BOOLEAN
    BY <1>0 DEF SignInHub
  <1>4. CASE SignIn!Disable
    BY <1>2, <1>4, AccountMoves DEF SignIn!Disable
  <1>5. CASE SignIn!ResetPassword
    <2>1. hub' = [hub EXCEPT !.active = hub.active, !.validAfter = hub.now, !.revision = @ + 1]
      BY <1>0, <1>5 DEF SignIn!ResetPassword, SignInHub
    <2> QED BY <1>2, <1>3, <1>5, <2>1, AccountMoves DEF SignIn!ResetPassword
  <1>6. CASE SignIn!Enable
    <2>1. /\ hub' \in SignInHub /\ hub'.now = hub.now /\ hub'.validAfter = hub.validAfter
          /\ hub'.revision = hub.revision /\ UNCHANGED <<screen, calls>>
      BY <1>0, <1>6 DEF SignIn!Enable, SignInHub
    <2> QED BY <1>0, <2>1, AccountMoves DEF Fits
  \* Whatever leaves the account alone.
  <1>7. ASSUME NEW b \in Browser, NEW k \in SignIn!Kind, NEW x \in SignInCall, NEW tab \in Tab,
               UNCHANGED hub, calls' = [calls EXCEPT ![b][k] = x], screen' = [screen EXCEPT ![b] = tab],
               Fits(x.session), Fits(tab.cookie), x.step \in Steps(k),
               tab.ready => IF k = "me" THEN x.step = "none"
                            ELSE screen[b].ready \/ calls[b]["me"].step = "none",
               tab.user => tab.ready /\ IF k = "login" THEN x.step = "none"
                                        ELSE calls[b]["login"].step = "none",
               ~tab.ready /\ k # "me" => x.step = "none",
               screen[b].ready => tab.ready
        PROVE  SignInInv'
    <2>1. \A s : Fits(s) => Fits(s)'
      BY <1>7 DEF Fits
    <2> QED BY <1>0, <1>7, <2>1, RequestMoves
  <1>8. ASSUME NEW b \in Browser
        PROVE  screen = [screen EXCEPT ![b] = screen[b]]
    BY DEF SignInInv
  \* A request that is not at rest is one of a tab that is ready, or of the mount.
  <1>9. ASSUME NEW b \in Browser, NEW k \in SignIn!Kind, calls[b][k].step # "none"
        PROVE  /\ k # "me" => screen[b].ready
               /\ k = "me" => ~screen[b].ready /\ ~screen[b].user
               /\ k = "login" => ~screen[b].user
               /\ calls[b][k].step \in Steps(k) /\ Fits(calls[b][k].session)
    BY <1>0, <1>9 DEF TabOK
  \* A request that moves on beside its tab.
  <1>10. ASSUME NEW b \in Browser, NEW k \in SignIn!Kind, NEW x \in SignInCall,
                UNCHANGED <<hub, screen>>, calls' = [calls EXCEPT ![b][k] = x],
                calls[b][k].step # "none" \/ (screen[b].ready /\ k # "me" /\ screen[b].user = (k # "login")),
                x.step \in Steps(k), Fits(x.session)
         PROVE  SignInInv'
    <2>1. screen[b] \in Tab /\ Fits(screen[b].cookie) /\ screen' = [screen EXCEPT ![b] = screen[b]]
      BY <1>0, <1>8, <1>10 DEF TabOK
    <2>2. /\ screen[b].ready => calls[b]["me"].step = "none"
          /\ screen[b].user => screen[b].ready /\ calls[b]["login"].step = "none"
      BY <1>0 DEF TabOK
    <2> QED BY <1>7, <1>9, <1>10, <2>1, <2>2
  <1>11. ASSUME NEW b \in Browser, NEW k \in SignIn!Kind \ {"me"}, SignIn!Send(b, k)
         PROVE  SignInInv'
    <2>1. Fits(screen[b].cookie) /\ "asked" \in Steps(k)
      BY <1>0 DEF TabOK, Steps
    <2> QED BY <1>10, <1>11, <2>1, SentFits DEF SignIn!Send
  <1>12. ASSUME NEW b \in Browser, SignIn!CheckPassword(b)
         PROVE  SignInInv'
    <2>1. "login" \in SignIn!Kind /\ "checked" \in Steps("login")
      BY DEF SignIn!Kind, Steps
    <2>2. PICK x \in SignInCall : x = [calls[b]["login"] EXCEPT !.step = "checked"]
      BY <1>0, <2>1 DEF SignInCall
    <2>3. /\ UNCHANGED <<hub, screen>> /\ calls' = [calls EXCEPT ![b]["login"] = x]
          /\ calls[b]["login"].step # "none"
      BY <1>12, <2>2 DEF SignIn!CheckPassword
    <2>4. x.step = "checked" /\ x.session = calls[b]["login"].session
      BY <1>0, <2>1, <2>2 DEF SignInCall
    <2> QED BY <1>9, <1>10, <2>1, <2>3, <2>4
  <1>13. ASSUME NEW b \in Browser, SignIn!ChangePassword(b)
         PROVE  SignInInv'
    <2>1. "change" \in SignIn!Kind /\ "checked" \in Steps("change")
      BY DEF SignIn!Kind, Steps
    <2>2. PICK x \in SignInCall : x = [calls[b]["change"] EXCEPT !.step = "checked"]
      BY <1>0, <2>1 DEF SignInCall
    <2>3. /\ calls' = [calls EXCEPT ![b]["change"] = x] /\ calls[b]["change"].step # "none"
          /\ screen' = [screen EXCEPT ![b] = screen[b]]
          /\ hub' = [hub EXCEPT !.active = hub.active, !.validAfter = hub.now, !.revision = @ + 1]
          /\ hub.revision < Bound
      BY <1>0, <1>8, <1>13, <2>2 DEF SignIn!ChangePassword, SignInHub
    <2>4. x.step = "checked" /\ x.session = calls[b]["change"].session
      BY <1>0, <2>1, <2>2 DEF SignInCall
    <2>5. /\ hub' \in SignInHub /\ hub'.validAfter <= hub'.now
          /\ \A s \in SignIn!Cookie : Fits(s) => Fits(s)'
      BY <1>2, <1>3, <2>3
    <2>6. Fits(x.session)' /\ Fits(screen[b].cookie) /\ screen[b].cookie \in SignIn!Cookie
      BY <1>0, <1>9, <2>1, <2>3, <2>4, <2>5 DEF TabOK, Tab, SignInCall
    <2>7. PICK tab \in Tab : tab = screen[b]
      BY <1>0
    <2>8. Fits(tab.cookie)'
      BY <2>5, <2>6, <2>7
    <2>9. /\ tab.ready => calls[b]["me"].step = "none"
          /\ tab.user => tab.ready /\ calls[b]["login"].step = "none"
          /\ tab.ready /\ tab.ready = screen[b].ready
      BY <1>0, <1>9, <2>1, <2>3, <2>7 DEF TabOK
    <2> QED BY <2>1, <2>3, <2>4, <2>5, <2>6, <2>7, <2>8, <2>9, RequestMoves
  <1>14. ASSUME NEW b \in Browser, NEW k \in SignIn!Kind \ {"me"}, SignIn!SetSession(b, k)
         PROVE  SignInInv'
    <2>1. SignIn!Fresh \in SignIn!Cookie /\ Fits(SignIn!Fresh) /\ Fits(None) /\ None \in SignIn!Cookie
      BY <1>0 DEF SignIn!Fresh, SignIn!Cookie, SignIn!Session, SignInHub, Fits
    <2>2. PICK s \in SignIn!Cookie :
            /\ Fits(s)
            /\ calls' = [calls EXCEPT ![b][k].step = "issued", ![b][k].session = s]
      BY <1>14, <2>1 DEF SignIn!SetSession
    <2>3. PICK x \in SignInCall : x = [calls[b][k] EXCEPT !.step = "issued", !.session = s]
      BY <1>0 DEF SignInCall
    <2>4. calls' = [calls EXCEPT ![b][k] = x]
      BY <1>0, <2>2, <2>3 DEF SignInInv
    <2>5. x.step = "issued" /\ x.session = s
      BY <1>0, <2>3 DEF SignInCall
    <2>6. calls[b][k].step # "none" /\ UNCHANGED <<hub, screen>>
      BY <1>14 DEF SignIn!SetSession
    <2>7. "issued" \in Steps(k)
      BY DEF Steps, SignIn!Kind
    <2>8. Fits(x.session) /\ k \in SignIn!Kind
      BY <2>2, <2>5
    <2>9. x.step \in Steps(k)
      BY <2>5, <2>7
    <2> QED BY <1>10, <2>4, <2>6, <2>8, <2>9
  <1>15. ASSUME NEW b \in Browser, NEW k \in SignIn!Kind, SignIn!WhoAmI(b, k) \/ SignIn!RequestFails(b, k)
         PROVE  SignInInv'
    <2>1. PICK step \in {"answered", "failed"}, ok \in BOOLEAN :
            /\ calls' = [calls EXCEPT ![b][k].step = step, ![b][k].ok = ok]
            /\ step = "answered" => calls[b][k].step = IF k = "me" THEN "asked" ELSE "who"
      <3>1. CASE SignIn!WhoAmI(b, k)
        BY <3>1 DEF SignIn!WhoAmI, SignIn!Accepted, SignIn!StillValid
      <3>2. CASE SignIn!RequestFails(b, k)
        <4>1. calls' = [calls EXCEPT ![b][k].step = "failed", ![b][k].ok = calls[b][k].ok]
          BY ZenonT(40), <1>0, <3>2 DEF SignIn!RequestFails, SignInCall, SignInInv
        <4>2. calls[b][k].ok \in BOOLEAN
          BY <1>0 DEF SignInCall
        <4> QED BY <4>1, <4>2
      <3> QED BY <1>15, <3>1, <3>2
    <2>2. PICK x \in SignInCall : x = [calls[b][k] EXCEPT !.step = step, !.ok = ok]
      BY <1>0 DEF SignInCall
    <2>3. calls' = [calls EXCEPT ![b][k] = x]
      BY <1>0, <2>1, <2>2 DEF SignInInv
    <2>4. x.step = step /\ x.session = calls[b][k].session
      BY <1>0, <2>2 DEF SignInCall
    <2>5. calls[b][k].step # "none" /\ UNCHANGED <<hub, screen>>
      BY <1>15 DEF SignIn!WhoAmI, SignIn!RequestFails
    <2>6. step \in Steps(k)
      BY <1>9, <2>1, <2>5 DEF Steps, SignIn!Kind
    <2> QED BY <1>9, <1>10, <2>3, <2>4, <2>5, <2>6
  <1>16. ASSUME NEW b \in Browser, NEW k \in SignIn!Kind \ {"me"}, SignIn!CookieArrives(b, k)
         PROVE  SignInInv'
    <2>1. calls[b][k].step = "issued" /\ UNCHANGED hub
      BY <1>16 DEF SignIn!CookieArrives
    <2>2. screen[b].ready /\ Fits(calls[b][k].session) /\ (k = "login" => ~screen[b].user)
      BY <1>9, <2>1
    <2>3. calls[b][k].session \in SignIn!Cookie
      BY <1>0 DEF SignInCall
    <2>4. PICK tab \in Tab : /\ tab.cookie = calls[b][k].session /\ tab.ready = screen[b].ready
                             /\ tab.user => screen[b].user
                             /\ screen' = [screen EXCEPT ![b] = tab]
      <3> DEFINE user == screen[b].user /\ k # "logout"
                 tab == [screen[b] EXCEPT !.cookie = calls[b][k].session, !.user = user]
      <3>1. screen' = [screen EXCEPT ![b] = tab]
        BY <1>0, <1>16 DEF SignIn!CookieArrives, SignInInv
      <3>2. user \in BOOLEAN /\ (user => screen[b].user)
        OBVIOUS
      <3> HIDE DEF user
      <3>3. tab \in Tab /\ tab.cookie = calls[b][k].session /\ tab.ready = screen[b].ready
            /\ tab.user = user
        BY <1>0, <2>3, <3>2 DEF Tab
      <3> QED BY <3>1, <3>2, <3>3
    <2>5. PICK x \in SignInCall :
            /\ x.step = IF k = "login" THEN "who" ELSE "none"
            /\ Fits(x.session)
            /\ calls' = [calls EXCEPT ![b][k] = x]
      <3>1. CASE k = "login"
        <4> DEFINE x == [calls[b][k] EXCEPT !.step = "who"]
        <4>1. calls' = [calls EXCEPT ![b][k] = x]
          BY <1>16, <3>1 DEF SignIn!CookieArrives
        <4>2. x \in SignInCall /\ x.step = "who" /\ x.session = calls[b][k].session
          BY <1>0 DEF SignInCall
        <4> QED BY <2>2, <3>1, <4>1, <4>2
      <3>2. CASE k # "login"
        <4>1. calls' = [calls EXCEPT ![b][k] = SignIn!NoRequest]
          BY <1>16, <3>2 DEF SignIn!CookieArrives
        <4>2. SignIn!NoRequest.step = "none" /\ Fits(SignIn!NoRequest.session)
          BY DEF SignIn!NoRequest, Fits
        <4> QED BY <3>2, <4>1, <4>2, NoRequestFits
      <3> QED BY <3>1, <3>2
    <2>6. x.step \in Steps(k)
      BY <2>5 DEF Steps, SignIn!Kind
    <2>7. calls[b]["me"].step = "none" /\ (screen[b].user => calls[b]["login"].step = "none")
      BY <1>0, <2>2 DEF TabOK
    <2>8. Fits(tab.cookie) /\ k # "me" /\ k \in SignIn!Kind
      BY <2>2, <2>4
    <2> QED BY <1>7, <2>1, <2>2, <2>4, <2>5, <2>6, <2>7, <2>8
  <1>17. ASSUME NEW b \in Browser, NEW k \in SignIn!Kind,
                SignIn!UserArrives(b, k) \/ SignIn!FailureArrives(b, k)
         PROVE  SignInInv'
    <2>1. /\ calls' = [calls EXCEPT ![b][k] = SignIn!NoRequest] /\ UNCHANGED hub
          /\ calls[b][k].step \in {"answered", "failed"}
      BY <1>17 DEF SignIn!UserArrives, SignIn!FailureArrives
    <2>2. /\ SignIn!NoRequest.step = "none" /\ Fits(SignIn!NoRequest.session)
          /\ SignIn!NoRequest.step \in Steps(k)
      BY DEF SignIn!NoRequest, Fits, Steps
    <2>3. /\ calls[b][k].step = "answered" => k \in {"me", "login"}
      BY <1>9, <2>1 DEF Steps, SignIn!Kind
    <2>4. PICK tab \in Tab : /\ tab.cookie = screen[b].cookie
                             /\ screen' = [screen EXCEPT ![b] = tab]
                             /\ \/ tab.ready /\ k \in {"me", "login"}
                                \/ tab = screen[b] /\ k # "me"
      <3>1. CASE SignIn!UserArrives(b, k)
        <4> DEFINE tab == [screen[b] EXCEPT !.user = calls[b][k].ok, !.ready = TRUE]
        <4>1. screen' = [screen EXCEPT ![b] = tab] /\ calls[b][k].step = "answered"
          BY <1>0, <3>1 DEF SignIn!UserArrives, SignInInv
        <4>2. calls[b][k].ok \in BOOLEAN
          BY <1>0 DEF SignInCall
        <4>3. tab \in Tab /\ tab.cookie = screen[b].cookie /\ tab.ready
          BY <1>0, <4>2 DEF Tab
        <4> QED BY <2>3, <4>1, <4>3
      <3>2. CASE SignIn!FailureArrives(b, k) /\ k = "me"
        <4> DEFINE tab == [screen[b] EXCEPT !.user = FALSE, !.ready = TRUE]
        <4>1. screen' = [screen EXCEPT ![b] = tab]
          BY <1>0, <3>2 DEF SignIn!FailureArrives, SignInInv
        <4>2. tab \in Tab /\ tab.cookie = screen[b].cookie /\ tab.ready
          BY <1>0 DEF Tab
        <4> QED BY <3>2, <4>1, <4>2
      <3>3. CASE SignIn!FailureArrives(b, k) /\ k # "me"
        BY <1>0, <1>8, <3>3 DEF SignIn!FailureArrives
      <3> QED BY <1>17, <3>1, <3>2, <3>3
    <2>5. /\ Fits(tab.cookie)
          /\ k # "me" => screen[b].ready /\ calls[b]["me"].step = "none"
          /\ k = "me" => ~screen[b].ready /\ ~screen[b].user /\ calls[b]["login"].step = "none"
          /\ screen[b].user => screen[b].ready /\ calls[b]["login"].step = "none"
      <3>1. "login" \in SignIn!Kind
        BY DEF SignIn!Kind
      <3> QED BY <1>0, <1>9, <2>1, <2>4, <3>1 DEF TabOK
    <2> QED BY <1>7, <2>1, <2>2, <2>4, <2>5, NoRequestFits
  <1>18. ASSUME NEW b \in Browser,
                \/ SignIn!CheckPassword(b) \/ SignIn!ChangePassword(b)
                \/ \E k \in SignIn!Kind \ {"me"} :
                     SignIn!Send(b, k) \/ SignIn!SetSession(b, k) \/ SignIn!CookieArrives(b, k)
                \/ \E k \in SignIn!Kind : SignIn!WhoAmI(b, k) \/ SignIn!RequestFails(b, k)
                                          \/ SignIn!UserArrives(b, k) \/ SignIn!FailureArrives(b, k)
         PROVE  SignInInv'
    BY <1>11, <1>12, <1>13, <1>14, <1>15, <1>16, <1>17, <1>18
  <1> QED BY <1>1, <1>4, <1>5, <1>6, <1>18 DEF SignIn!SignInNext

\* A user who goes is one that logs out.
LEMMA UserStays == SignInInv /\ SignIn!SignInNext => SignIn!OnlyByLogOut
  <1> SUFFICES ASSUME SignInInv, SignIn!SignInNext, NEW b \in Browser,
                      screen[b].user, ~screen'[b].user
               PROVE  calls[b]["logout"].step = "issued"
    BY DEF SignIn!OnlyByLogOut
  <1>1. screen[b] \in Tab /\ TabOK(screen[b], calls[b]) /\ "me" \in SignIn!Kind
    BY DEF SignInInv, SignIn!Kind
  <1>2. calls[b]["me"].step = "none" /\ calls[b]["login"].step = "none"
    BY <1>1 DEF TabOK
  <1>3. \A k \in SignIn!Kind : calls[b][k].step = "answered" => k \in {"me", "login"}
    BY <1>1 DEF TabOK, Steps, SignIn!Kind
  <1>4. screen' # screen
    OBVIOUS
  <1>5. \A d \in Browser, k \in SignIn!Kind : ~SignIn!WhoAmI(d, k) /\ ~SignIn!RequestFails(d, k)
    BY <1>4 DEF SignIn!WhoAmI, SignIn!RequestFails
  <1>6. \A d \in Browser : ~SignIn!CheckPassword(d) /\ ~SignIn!ChangePassword(d)
    BY <1>4 DEF SignIn!CheckPassword, SignIn!ChangePassword
  <1>7. \A d \in Browser, k \in SignIn!Kind : ~SignIn!Send(d, k) /\ ~SignIn!SetSession(d, k)
    BY <1>4 DEF SignIn!Send, SignIn!SetSession
  <1>8. ~SignIn!SecondPasses /\ ~SignIn!Disable /\ ~SignIn!Enable /\ ~SignIn!ResetPassword
    BY <1>4 DEF SignIn!SecondPasses, SignIn!Disable, SignIn!Enable, SignIn!ResetPassword
  <1>9. PICK d \in Browser, k \in SignIn!Kind :
          \/ k # "me" /\ SignIn!CookieArrives(d, k)
          \/ SignIn!UserArrives(d, k) \/ SignIn!FailureArrives(d, k)
    BY <1>5, <1>6, <1>7, <1>8 DEF SignIn!SignInNext
  <1>10. CASE SignIn!CookieArrives(d, k)
    BY <1>1, <1>10 DEF SignIn!CookieArrives, SignInInv, Tab
  <1>11. CASE SignIn!UserArrives(d, k)
    BY <1>2, <1>3, <1>11 DEF SignIn!UserArrives, SignInInv
  <1>12. CASE SignIn!FailureArrives(d, k)
    BY <1>2, <1>12 DEF SignIn!FailureArrives, SignInInv
  <1> QED BY <1>9, <1>10, <1>11, <1>12

-----------------------------------------------------------------------------
(* Access.  Grants are never forgotten, so that what a profile was loaded    *)
(* with stays founded on them, whatever has been removed since.              *)

AccessHub ==
  [users : SUBSET User, estates : [Env -> {"new", "registered", "removed"}],
   assigned : SUBSET Access!Assignment, grants : SUBSET Access!Grant, changes : 0 .. Bound]

AccessScreen ==
  [user : User, admin : BOOLEAN, shown : SUBSET Access!Assignment, estates : SUBSET Env]

AccessCall ==
  [kind : {"none", "reload", "assign", "remove", "user"},
   step : {"asked", "allowed", "load", "answered", "failed"},
   may : SUBSET Access!Place, rows : SUBSET Access!Assignment, estates : SUBSET Env]

\* What u has ever been granted.
Say(u, place) == u = Root \/ \E g \in hub.grants : Access!GivesSay(g.row, u, place)

Dated == \A g \in hub.grants : g.at <= hub.changes

AccessInv ==
  /\ hub \in AccessHub
  /\ screen \in AccessScreen
  /\ calls \in [Button -> AccessCall]
  /\ Access!DelegationStaysInside
  /\ Dated
  /\ \A c \in Button : \A place \in calls[c].may : Say(screen.user, place)

LEMMA AccessTyped == AccessInv => Access!AccessTypeOK
  BY DEF AccessInv, AccessHub, AccessScreen, AccessCall, Access!AccessTypeOK

LEMMA OwnTyped ==
  ASSUME NEW u \in User, NEW e \in Env, "hub" \notin Env
  PROVE  Access!OwnEstate(u, e) \in Access!Assignment
  BY DEF Access!OwnEstate, Access!Assignment, Access!Roles, Access!Place, Access!Hub

LEMMA AccessStarts ==
  ASSUME Root \in User, Delegate \in User \ {Root}, Home \in Env, "hub" \notin Env
  PROVE  Access!AccessInit => AccessInv
  <1> SUFFICES ASSUME Access!AccessInit PROVE AccessInv
    OBVIOUS
  <1> DEFINE own == Access!OwnEstate(Delegate, Home)
             first == [at |-> 0, by |-> Delegate, kind |-> "registered", row |-> own]
  <1>1. own \in Access!Assignment /\ own.principal = Delegate
    BY OwnTyped DEF Access!OwnEstate
  <1> HIDE DEF own
  <1>2. first \in Access!Grant
    BY <1>1, BoundAssumption DEF Access!Grant
  <1>3. PICK accounts \in SUBSET User :
          hub = [users |-> accounts,
                 estates |-> [e \in Env |-> IF e = Home THEN "registered" ELSE "new"],
                 assigned |-> {own}, grants |-> {first}, changes |-> 0]
    BY DEF Access!AccessInit, own
  <1>4. hub \in AccessHub
    BY <1>1, <1>2, <1>3, BoundAssumption DEF AccessHub
  <1>5. screen \in AccessScreen
    BY <1>4 DEF Access!AccessInit, AccessScreen, AccessHub
  <1>6. calls \in [Button -> AccessCall] /\ \A c \in Button : calls[c].may = {}
    <2>1. /\ Access!NoCall \in AccessCall /\ [Access!NoCall EXCEPT !.kind = "reload"] \in AccessCall
          /\ Access!NoCall.may = {} /\ [Access!NoCall EXCEPT !.kind = "reload"].may = {}
      BY DEF Access!NoCall, AccessCall
    <2> QED BY <2>1 DEF Access!AccessInit
  <1>7. Access!DelegationStaysInside /\ Dated
    <2>1. first.kind = "registered" /\ first.row = own /\ first.by = Delegate /\ first.at = 0
      OBVIOUS
    <2>2. hub.assigned = {own} /\ hub.grants = {first} /\ hub.changes = 0
      BY <1>3
    <2> HIDE DEF first
    <2>3. Access!Founded(first)
      BY <1>1, <2>1 DEF Access!Founded
    <2>4. Access!DelegationStaysInside
      BY Zenon, <2>1, <2>2, <2>3 DEF Access!DelegationStaysInside
    <2> QED BY <2>1, <2>2, <2>4 DEF Dated
  <1> QED BY <1>4, <1>5, <1>6, <1>7 DEF AccessInv

\* Who has a say over a place now has been granted it.
LEMMA AdministersSay ==
  ASSUME Access!DelegationStaysInside, NEW u, NEW place, Access!Administers(u, place)
  PROVE  Say(u, place)
  BY DEF Access!DelegationStaysInside, Access!Administers, Say

LEMMA MaySay ==
  ASSUME Access!DelegationStaysInside, NEW u
  PROVE  /\ Access!MayAdminister(u) \subseteq Access!Place
         /\ \A place \in Access!MayAdminister(u) : Say(u, place)
  BY AdministersSay DEF Access!MayAdminister

\* What the routes keep of the hub.
HubKept ==
  /\ hub' \in AccessHub
  /\ Access!DelegationStaysInside'
  /\ Dated'
  /\ hub.grants \subseteq hub'.grants

LEMMA GivenKeeps ==
  ASSUME AccessInv, NEW u \in User, NEW kind \in {"registered", "assigned"},
         NEW a \in Access!Assignment, Access!Given(u, kind, a),
         \/ kind = "registered" /\ a.principal = u
         \/ kind = "assigned" /\ Say(u, a.place)
  PROVE  HubKept
  <1>1. hub.changes \in Nat /\ hub.changes + 1 \in 0 .. Bound
    BY BoundAssumption DEF Access!Given, AccessInv, AccessHub
  <1>2. PICK g \in Access!Grant : g = [at |-> hub.changes + 1, by |-> u, kind |-> kind, row |-> a]
    BY <1>1 DEF Access!Grant
  <1>3. hub.estates \in [Env -> {"new", "registered", "removed"}]
    BY DEF AccessInv, AccessHub
  <1>4. PICK estates \in [Env -> {"new", "registered", "removed"}] :
          hub' = [hub EXCEPT !.assigned = @ \cup {a}, !.grants = @ \cup {g},
                             !.estates = estates, !.changes = @ + 1]
    <2>1. [hub.estates EXCEPT ![a.place] = "registered"] \in [Env -> {"new", "registered", "removed"}]
      BY <1>3
    <2> QED BY <1>2, <1>3, <2>1 DEF Access!Given, AccessInv, AccessHub
  <1>5. /\ hub'.assigned = hub.assigned \cup {a} /\ hub'.grants = hub.grants \cup {g}
        /\ hub'.changes = hub.changes + 1
    BY <1>4 DEF AccessInv, AccessHub
  <1>6. /\ hub' \in AccessHub
        /\ g.at = hub.changes + 1 /\ g.by = u /\ g.kind = kind /\ g.row = a
    BY <1>1, <1>2, <1>4 DEF AccessInv, AccessHub
  <1>7. \A h \in hub.grants : h.at \in Nat /\ h.at <= hub.changes
    BY DEF AccessInv, AccessHub, Dated, Access!Grant
  <1>8. Dated'
    BY <1>1, <1>5, <1>6, <1>7 DEF Dated
  <1>9. \A h \in hub.grants : Access!Founded(h)'
    <2> TAKE h \in hub.grants
    <2>1. Access!Founded(h)
      BY DEF AccessInv, Access!DelegationStaysInside
    <2> QED BY <1>5, <2>1 DEF Access!Founded, Access!GivesSay
  <1>10. Access!Founded(g)'
    <2>1. CASE kind = "registered" /\ a.principal = u
      BY <1>6, <2>1 DEF Access!Founded
    <2>2. CASE Say(u, a.place) /\ u = Root
      BY <1>6, <2>2 DEF Access!Founded
    <2>3. ASSUME NEW h \in hub.grants, Access!GivesSay(h.row, u, a.place)
          PROVE  Access!Founded(g)'
      <3>1. h \in hub'.grants /\ h.at < g.at
        BY <1>1, <1>5, <1>6, <1>7
      <3>2. Access!GivesSay(h.row, g.by, g.row.place)
        BY <1>6, <2>3
      <3> QED BY Zenon, <3>1, <3>2 DEF Access!Founded, Access!GivesSay
    <2> QED BY <2>1, <2>2, <2>3 DEF Say
  <1>11. Access!DelegationStaysInside'
    <2>1. \A b \in hub'.assigned : \E h \in hub'.grants : h.row = b
      BY Zenon, <1>5, <1>6 DEF AccessInv, Access!DelegationStaysInside
    <2>2. \A h \in hub'.grants : Access!Founded(h)'
      BY Zenon, <1>5, <1>9, <1>10
    <2> QED BY <2>1, <2>2 DEF Access!DelegationStaysInside
  <1> QED BY <1>5, <1>6, <1>8, <1>11 DEF HubKept

LEMMA GoneKeeps ==
  ASSUME AccessInv, NEW assigned \in SUBSET hub.assigned,
         NEW estates \in [Env -> {"new", "registered", "removed"}], Access!Gone(assigned, estates)
  PROVE  HubKept
  <1>1. hub.changes \in Nat /\ hub.changes + 1 \in 0 .. Bound
    BY BoundAssumption DEF Access!Gone, AccessInv, AccessHub
  <1>2. /\ hub' \in AccessHub
        /\ hub'.assigned = assigned /\ hub'.grants = hub.grants /\ hub'.changes = hub.changes + 1
    BY <1>1 DEF Access!Gone, AccessInv, AccessHub
  <1>3. Dated'
    BY <1>1, <1>2 DEF Dated, AccessInv, AccessHub, Access!Grant
  <1>4. Access!DelegationStaysInside'
    BY <1>2 DEF AccessInv, Access!DelegationStaysInside, Access!Founded, Access!GivesSay
  <1> QED BY <1>2, <1>3, <1>4 DEF HubKept

\* Whatever a route does for u by a profile that its grants founded.
LEMMA RoutesKeep ==
  ASSUME AccessInv, NEW u \in User, NEW may, \A place \in may : Say(u, place),
         \/ \E a \in Access!Assignment : \/ Access!CreateAssignment(u, may, a)
                                         \/ Access!DeleteAssignment(may, a)
         \/ Access!CreateUser(may)
         \/ \E e \in Env : Access!CreateEnvironment(u, e) \/ Access!DeleteEnvironment(may, e)
  PROVE  HubKept
  <1>0. hub.estates \in [Env -> {"new", "registered", "removed"}]
    BY DEF AccessInv, AccessHub
  <1>1. ASSUME NEW a \in Access!Assignment, Access!CreateAssignment(u, may, a)
        PROVE  HubKept
    BY <1>1, GivenKeeps DEF Access!CreateAssignment
  <1>2. ASSUME NEW a \in Access!Assignment, Access!DeleteAssignment(may, a)
        PROVE  HubKept
    BY <1>0, <1>2, GoneKeeps DEF Access!DeleteAssignment
  <1>3. CASE Access!CreateUser(may)
    <2>1. PICK new \in User : hub' = [hub EXCEPT !.users = @ \cup {new}]
      BY <1>3 DEF Access!CreateUser
    <2>2. /\ hub' \in AccessHub
          /\ hub'.assigned = hub.assigned /\ hub'.grants = hub.grants /\ hub'.changes = hub.changes
      BY <2>1 DEF AccessInv, AccessHub
    <2> QED BY <2>2 DEF HubKept, AccessInv, Dated, Access!DelegationStaysInside, Access!Founded,
                        Access!GivesSay
  <1>4. ASSUME NEW e \in Env, Access!CreateEnvironment(u, e)
        PROVE  HubKept
    <2>1. Access!OwnEstate(u, e) \in Access!Assignment /\ Access!OwnEstate(u, e).principal = u
      BY OwnTyped, PeopleAssumption DEF Access!OwnEstate
    <2> QED BY <1>4, <2>1, GivenKeeps DEF Access!CreateEnvironment
  <1>5. ASSUME NEW e \in Env, Access!DeleteEnvironment(may, e)
        PROVE  HubKept
    <2>1. [hub.estates EXCEPT ![e] = "removed"] \in [Env -> {"new", "registered", "removed"}]
      BY <1>0
    <2>2. {a \in hub.assigned : a.place # e} \in SUBSET hub.assigned
      OBVIOUS
    <2> QED BY <1>5, <2>1, <2>2, GoneKeeps DEF Access!DeleteEnvironment
  <1> QED BY <1>1, <1>2, <1>3, <1>4, <1>5

LEMMA AccessKeeps == AccessInv /\ Access!AccessNext => AccessInv'
  <1> SUFFICES ASSUME AccessInv, Access!AccessNext PROVE AccessInv'
    OBVIOUS
  <1>0. ASSUME UNCHANGED hub, screen' \in AccessScreen, screen'.user = screen.user,
               calls' \in [Button -> AccessCall],
               \A c \in Button : \A place \in calls'[c].may : Say(screen.user, place)
        PROVE  AccessInv'
    BY <1>0 DEF AccessInv, Access!DelegationStaysInside, Access!Founded, Access!GivesSay, Dated, Say
  <1>1. ASSUME HubKept, UNCHANGED screen, calls' \in [Button -> AccessCall],
               \A c \in Button : \A place \in calls'[c].may : Say(screen.user, place)
        PROVE  AccessInv'
    <2>1. \A c \in Button : \A place \in calls'[c].may : Say(screen.user, place)'
      BY <1>1 DEF HubKept, Say, Access!GivesSay
    <2> QED BY <1>1, <2>1 DEF AccessInv, HubKept
  <1>2. ASSUME NEW c \in Button, NEW x \in AccessCall, calls' = [calls EXCEPT ![c] = x],
               \A place \in x.may : Say(screen.user, place)
        PROVE  /\ calls' \in [Button -> AccessCall]
               /\ \A d \in Button : \A place \in calls'[d].may : Say(screen.user, place)
    BY <1>2 DEF AccessInv
  <1>3. screen.user \in User /\ \A c \in Button : calls[c] \in AccessCall
    BY DEF AccessInv, AccessScreen
  <1>4. ASSUME NEW u \in User, Access!Elsewhere(u)
        PROVE  AccessInv'
    <2>1. HubKept
      <3>1. \A place \in Access!MayAdminister(u) : Say(u, place)
        BY MaySay DEF AccessInv
      <3> QED BY <1>4, <3>1, RoutesKeep DEF Access!Elsewhere
    <2> QED BY <1>1, <1>4, <2>1 DEF Access!Elsewhere, AccessInv
  <1>5. ASSUME NEW c \in Button, NEW kind \in {"assign", "remove", "user"},
               NEW rows \in SUBSET Access!Assignment, Access!Begin(c, kind, rows)
        PROVE  AccessInv'
    <2> DEFINE x == [Access!NoCall EXCEPT !.kind = kind, !.rows = rows]
    <2>1. x \in AccessCall /\ x.may = {}
      BY DEF AccessCall, Access!NoCall
    <2> HIDE DEF x
    <2>2. calls' = [calls EXCEPT ![c] = x] /\ UNCHANGED <<hub, screen>>
      BY <1>5 DEF Access!Begin, x
    <2> QED BY <1>0, <1>2, <2>1, <2>2 DEF AccessInv
  <1>6. ASSUME NEW c \in Button, Access!Authorize(c)
        PROVE  AccessInv'
    <2> DEFINE x == [calls[c] EXCEPT !.step = "allowed", !.may = Access!MayAdminister(screen.user)]
    <2>1. /\ Access!MayAdminister(screen.user) \subseteq Access!Place
          /\ \A place \in Access!MayAdminister(screen.user) : Say(screen.user, place)
      BY MaySay DEF AccessInv
    <2>2. x \in AccessCall /\ x.may = Access!MayAdminister(screen.user)
      BY <1>3, <2>1 DEF AccessCall
    <2>3. calls' = [calls EXCEPT ![c] = x] /\ UNCHANGED <<hub, screen>>
      BY <1>6 DEF Access!Authorize, AccessInv
    <2> HIDE DEF x
    <2> QED BY <1>0, <1>2, <2>1, <2>2, <2>3 DEF AccessInv
  <1>7. ASSUME NEW c \in Button, Access!Serve(c)
        PROVE  AccessInv'
    <2> DEFINE x == [Access!NoCall EXCEPT !.kind = calls[c].kind, !.step = "load"]
    <2>1. x \in AccessCall /\ x.may = {}
      BY <1>3 DEF AccessCall, Access!NoCall
    <2>2. calls' = [calls EXCEPT ![c] = x] /\ UNCHANGED screen
      BY <1>7 DEF Access!Serve
    <2> HIDE DEF x
    <2>3. calls[c].rows \subseteq Access!Assignment
      BY <1>3 DEF AccessCall
    <2>4. \A place \in calls[c].may : Say(screen.user, place)
      BY DEF AccessInv
    <2>5. \/ \E a \in Access!Assignment : \/ Access!CreateAssignment(screen.user, calls[c].may, a)
                                          \/ Access!DeleteAssignment(calls[c].may, a)
          \/ Access!CreateUser(calls[c].may)
      BY <1>7, <2>3 DEF Access!Serve
    <2>6. HubKept
      BY <1>3, <2>4, <2>5, RoutesKeep
    <2> QED BY <1>1, <1>2, <2>1, <2>2, <2>6
  <1>8. ASSUME NEW c \in Button, Access!Refuse(c)
        PROVE  AccessInv'
    <2> DEFINE x == [Access!NoCall EXCEPT !.kind = calls[c].kind, !.step = "failed"]
    <2>1. x \in AccessCall /\ x.may = {}
      BY <1>3 DEF AccessCall, Access!NoCall
    <2>2. calls' = [calls EXCEPT ![c] = x] /\ UNCHANGED <<hub, screen>>
      BY <1>8 DEF Access!Refuse
    <2> HIDE DEF x
    <2> QED BY <1>0, <1>2, <2>1, <2>2 DEF AccessInv
  <1>9. ASSUME NEW c \in Button, Access!Directory(c)
        PROVE  AccessInv'
    <2> DEFINE found == [calls[c] EXCEPT !.step = "answered", !.rows = hub.assigned,
                                         !.estates = Access!Visible(screen.user)]
               lost == [calls[c] EXCEPT !.step = "failed"]
    <2>1. hub.assigned \subseteq Access!Assignment /\ Access!Visible(screen.user) \subseteq Env
      BY DEF AccessInv, AccessHub, Access!Visible
    <2>2. found \in AccessCall /\ lost \in AccessCall /\ found.may = calls[c].may /\ lost.may = calls[c].may
      BY <1>3, <2>1 DEF AccessCall
    <2>3. PICK x \in {found, lost} : calls' = [calls EXCEPT ![c] = x] /\ UNCHANGED <<hub, screen>>
      BY <1>9 DEF Access!Directory, AccessInv
    <2>4. x \in AccessCall /\ \A place \in x.may : Say(screen.user, place)
      BY <2>2 DEF AccessInv
    <2> QED BY <1>0, <1>2, <2>3, <2>4 DEF AccessInv
  <1>10. ASSUME NEW c \in Button, Access!Lands(c)
         PROVE  AccessInv'
    <2>1. Access!NoCall \in AccessCall /\ Access!NoCall.may = {}
      BY DEF AccessCall, Access!NoCall
    <2>2. screen' \in AccessScreen /\ screen'.user = screen.user
      BY <1>3, <1>10 DEF Access!Lands, AccessInv, AccessScreen, AccessCall
    <2>3. calls' = [calls EXCEPT ![c] = Access!NoCall] /\ UNCHANGED hub
      BY <1>10 DEF Access!Lands
    <2> QED BY <1>0, <1>2, <2>1, <2>2, <2>3
  <1>11. ASSUME NEW c \in Button,
                \/ \E a \in Access!Assignment : Access!AssignRole(c, a) \/ Access!Remove(c, a)
                \/ Access!SubmitUser(c)
         PROVE  AccessInv'
    <2>1. \E kind \in {"assign", "remove", "user"}, rows \in SUBSET Access!Assignment :
            Access!Begin(c, kind, rows)
      BY <1>11 DEF Access!AssignRole, Access!Remove, Access!SubmitUser
    <2> QED BY <1>5, <2>1
  <1> QED BY <1>4, <1>6, <1>7, <1>8, <1>9, <1>10, <1>11 DEF Access!AccessNext

-----------------------------------------------------------------------------
(* The topology: the one load under way is of the selection.                 *)

TopologyInv ==
  /\ Topology!TopologyTypeOK
  /\ Topology!AddressOpensShown
  /\ calls.trees \subseteq {screen.selected}

LEMMA TopologyStarts == Topology!TopologyInit => TopologyInv
  BY BoundAssumption
     DEF Topology!TopologyInit, TopologyInv, Topology!TopologyTypeOK, Topology!AddressOpensShown,
         Topology!View, Topology!Fleet, Topology!Asked, Topology!Idle

\* The three effects, for a selection that the address could have asked for.
LEMMA EffectsFollow ==
  ASSUME TopologyInv, NEW c \in Listing, NEW v \in Topology!View, NEW s,
         s \in [selected : Topology!View, query : Topology!View, choices : 0 .. Bound,
                topology : Topology!View \cup {None}, listed : BOOLEAN, error : BOOLEAN],
         s.topology = screen.topology,
         Topology!Selects(c, v, s), UNCHANGED hub
  PROVE  TopologyInv'
  <1>1. /\ screen' \in [selected : Topology!View, query : Topology!View, choices : 0 .. Bound,
                        topology : Topology!View \cup {None}, listed : BOOLEAN, error : BOOLEAN]
        /\ screen'.selected = v /\ screen'.query = v
        /\ screen'.topology \in {None, v}
    BY DEF Topology!Selects, TopologyInv, Topology!AddressOpensShown
  <1>2. /\ calls' \in [lists : [Listing -> [step : {"idle", "asked"},
                                            query : Topology!View \cup {None}]],
                       trees : SUBSET Topology!View]
        /\ calls'.trees \subseteq {v}
    BY DEF Topology!Selects, TopologyInv, Topology!TopologyTypeOK, Topology!LoadTopology,
           Topology!Idle, Topology!Asked
  <1> QED BY <1>1, <1>2 DEF TopologyInv, Topology!TopologyTypeOK, Topology!AddressOpensShown

LEMMA TopologyKeeps == TopologyInv /\ Topology!TopologyNext => TopologyInv'
  <1> SUFFICES ASSUME TopologyInv, Topology!TopologyNext PROVE TopologyInv'
    OBVIOUS
  <1> USE DEF TopologyInv, Topology!TopologyTypeOK
  <1>1. ASSUME NEW c \in Listing, NEW v \in Topology!View, Topology!Choose(c, v)
        PROVE  TopologyInv'
    <2>1. [screen EXCEPT !.choices = @ + 1] \in
            [selected : Topology!View, query : Topology!View, choices : 0 .. Bound,
             topology : Topology!View \cup {None}, listed : BOOLEAN, error : BOOLEAN]
      BY <1>1, BoundAssumption DEF Topology!Choose
    <2> QED BY <1>1, <2>1, EffectsFollow DEF Topology!Choose
  <1>2. ASSUME NEW c \in Listing, Topology!ListArrives(c)
        PROVE  TopologyInv'
    <2>1. Topology!Requested(calls.lists[c].query, screen.selected) \in Topology!View
      BY DEF Topology!Requested, Topology!View
    <2>2. [screen EXCEPT !.listed = hub # {}] \in
            [selected : Topology!View, query : Topology!View, choices : 0 .. Bound,
             topology : Topology!View \cup {None}, listed : BOOLEAN, error : BOOLEAN]
      OBVIOUS
    <2> QED BY <1>2, <2>1, <2>2, EffectsFollow DEF Topology!ListArrives
  <1>3. ASSUME NEW c \in Listing, Topology!ListFails(c)
        PROVE  TopologyInv'
    BY <1>3 DEF Topology!ListFails, Topology!AddressOpensShown, Topology!Idle
  <1>4. ASSUME NEW v \in Topology!View, Topology!TopologyArrives(v) \/ Topology!TopologyFails(v)
        PROVE  TopologyInv'
    <2>1. CASE Topology!TopologyArrives(v)
      BY <2>1 DEF Topology!TopologyArrives, Topology!AddressOpensShown
    <2>2. CASE Topology!TopologyFails(v)
      BY <2>2 DEF Topology!TopologyFails, Topology!AddressOpensShown
    <2> QED BY <1>4, <2>1, <2>2
  <1>5. ASSUME NEW e \in Env, Topology!Removed(e)
        PROVE  TopologyInv'
    BY <1>5 DEF Topology!Removed, Topology!AddressOpensShown
  <1> QED BY <1>1, <1>2, <1>3, <1>4, <1>5 DEF Topology!TopologyNext

-----------------------------------------------------------------------------
(* The registration: what is under way is the form on the screen, which in   *)
(* the settings has the kind of the row.                                     *)

RegistrationInv ==
  /\ Register!RegistrationTypeOK
  /\ Register!LatestTokenIsUsed
  /\ Register!ClosedMeansRegistered
  /\ hub.row = None => hub.given = None
  /\ screen.place = "settings" => hub.row # None /\ screen.form.kind = hub.row.kind
  /\ screen.listed => hub.row # None
  /\ calls.step = "write" =>
       screen.busy /\ screen.place \in {"dialog", "settings"} /\ calls.form = screen.form
  /\ calls.step \in {"sync", "load", "done"} => hub.row # None
  /\ calls.step \in {"load", "done"} /\ calls.form.sync => hub.queued

LEMMA RegistrationStarts == Register!RegistrationInit => RegistrationInv
  BY BoundAssumption
     DEF Register!RegistrationInit, RegistrationInv, Register!RegistrationTypeOK,
         Register!LatestTokenIsUsed, Register!ClosedMeansRegistered, Register!BlankForm,
         Register!Form, Register!Kind, Register!Mode, Register!AnyToken

\* Whatever is left blank, the stored row uses the token of the payload, or its own.
LEMMA StoredUses ==
  ASSUME RegistrationInv, NEW form \in Register!Form,
         hub.row # None => form.kind = hub.row.kind
  PROVE  /\ Register!Stored(Register!Payload(form)) \in Register!Row
         /\ Register!Stored(Register!Payload(form)).kind = form.kind
         /\ Register!UsedToken(Register!Stored(Register!Payload(form)))
              = Register!Or(form.token, hub.given)
  <1> DEFINE p == Register!Payload(form)
  <1>1. p \in Register!Row /\ p.kind = form.kind /\ p.token = form.token
        /\ p.orchToken = IF form.kind = "orchestrator" THEN form.token ELSE None
    BY DEF Register!Payload, Register!Row, Register!Form, Register!AnyToken
  <1> SUFFICES /\ Register!Stored(p) \in Register!Row
               /\ Register!Stored(p).kind = form.kind
               /\ Register!UsedToken(Register!Stored(p)) = Register!Or(form.token, hub.given)
    OBVIOUS
  <1> HIDE DEF p
  <1>2. CASE hub.row = None
    <2>1. hub.given = None
      BY <1>2 DEF RegistrationInv
    <2>2. Register!Stored(p) = Register!Normalized(p)
      BY <1>2 DEF Register!Stored
    <2>3. \/ p.kind = "orchestrator" /\ p.orchToken = p.token /\ Register!Normalized(p) = p
          \/ p.kind # "orchestrator" /\ p.orchToken = None /\ Register!Normalized(p) = p
      <3> QED BY <1>1 DEF Register!Normalized, Register!Or, Register!Row, Register!AnyToken
    <2> QED BY <1>1, <2>1, <2>2, <2>3 DEF Register!UsedToken, Register!Or
  <1>3. CASE hub.row # None
    <2>1. hub.row \in Register!Row /\ Register!UsedToken(hub.row) = hub.given /\ hub.row.kind = form.kind
      BY <1>3 DEF RegistrationInv, Register!RegistrationTypeOK, Register!LatestTokenIsUsed
    <2>2. Register!Stored(p) = Register!Normalized(Register!Edited(hub.row, p))
      BY <1>3 DEF Register!Stored
    <2>3. /\ Register!Edited(hub.row, p) \in Register!Row
          /\ Register!Edited(hub.row, p).kind = form.kind
          /\ Register!Edited(hub.row, p).token = Register!Or(form.token, hub.row.token)
          /\ Register!Edited(hub.row, p).orchToken = Register!Or(p.orchToken, hub.row.orchToken)
      BY <1>1, <2>1 DEF Register!Edited, Register!Or, Register!Row, Register!AnyToken
    <2> DEFINE e == Register!Edited(hub.row, p)
    <2>4. ASSUME NEW x \in Register!Row
          PROVE  /\ Register!Normalized(x) \in Register!Row
                 /\ Register!Normalized(x).kind = x.kind
                 /\ x.kind # "orchestrator" => Register!Normalized(x).token = x.token
                 /\ x.kind = "orchestrator" =>
                      /\ Register!Normalized(x).orchToken = Register!Or(x.orchToken, x.token)
                      /\ Register!Normalized(x).token = Register!Or(x.token, x.orchToken)
      BY DEF Register!Normalized, Register!Or, Register!Row, Register!AnyToken
    <2>5. /\ Register!Normalized(e) \in Register!Row
          /\ Register!Normalized(e).kind = form.kind
          /\ Register!Normalized(e).token = e.token \/ form.kind = "orchestrator"
          /\ form.kind = "orchestrator" =>
                      /\ Register!Normalized(e).orchToken = Register!Or(e.orchToken, e.token)
                      /\ Register!Normalized(e).token = Register!Or(e.token, e.orchToken)
      <3> HIDE DEF e
      <3> QED BY <2>3, <2>4 DEF e
    <2>6. ASSUME NEW f, NEW o, NEW t, NEW u,
                 u = Register!Or(Register!Or(f, t), Register!Or(f, o))
          PROVE  Register!Or(Register!Or(Register!Or(f, o), Register!Or(f, t)), u)
                   = Register!Or(f, Register!Or(o, t))
      BY <2>6 DEF Register!Or
    <2>7. CASE form.kind = "orchestrator"
      <3>1. Register!UsedToken(Register!Normalized(e)) =
              Register!Or(Register!Or(e.orchToken, e.token), Register!Normalized(e).token)
        BY <2>5, <2>7 DEF Register!UsedToken
      <3>2. hub.given = Register!Or(hub.row.orchToken, hub.row.token)
        BY <2>1, <2>7 DEF Register!UsedToken
      <3> HIDE DEF e
      <3> QED BY <1>1, <2>2, <2>3, <2>5, <2>6, <2>7, <3>1, <3>2 DEF e
    <2>8. CASE form.kind # "orchestrator"
      BY <1>1, <2>1, <2>2, <2>3, <2>5, <2>8 DEF Register!UsedToken
    <2> QED BY <2>7, <2>8
  <1> QED BY <1>2, <1>3

LEMMA RegistrationKeeps == RegistrationInv /\ Register!RegistrationNext => RegistrationInv'
  <1> SUFFICES ASSUME RegistrationInv, Register!RegistrationNext PROVE RegistrationInv'
    OBVIOUS
  <1> USE DEF RegistrationInv, Register!RegistrationTypeOK
  <1>0. Register!BlankForm \in Register!Form
    BY DEF Register!BlankForm, Register!Form, Register!Kind, Register!Mode, Register!AnyToken
  <1>1. CASE Register!OpenDialog \/ Register!CloseDialog \/ Register!LeaveSettings
    BY ZenonT(40), <1>1, <1>0
       DEF Register!OpenDialog, Register!CloseDialog, Register!LeaveSettings, Register!Creating,
           Register!LatestTokenIsUsed, Register!ClosedMeansRegistered
  <1>2. CASE Register!OpenSettings
    <2>1. Register!InitialForm(hub.row) \in Register!Form
          /\ Register!InitialForm(hub.row).kind = hub.row.kind
      BY <1>2, <1>0 DEF Register!OpenSettings, Register!InitialForm, Register!Row, Register!Form
    <2> QED BY <1>2, <2>1
            DEF Register!OpenSettings, Register!LatestTokenIsUsed, Register!ClosedMeansRegistered
  <1>3. ASSUME NEW k \in Register!Kind, Register!ChooseKind(k)
        PROVE  RegistrationInv'
    <2>1. screen' \in [place : {"list", "dialog", "done", "settings"}, form : Register!Form,
                       busy : BOOLEAN, listed : BOOLEAN, error : BOOLEAN]
      BY <1>3 DEF Register!ChooseKind, Register!Form, Register!Mode
    <2> QED BY <1>3, <2>1
            DEF Register!ChooseKind, Register!Creating, Register!Typing, Register!LatestTokenIsUsed,
                Register!ClosedMeansRegistered
  <1>4. ASSUME NEW m \in Register!Mode, NEW t \in Register!AnyToken, Register!TypeCredentials(m, t)
        PROVE  RegistrationInv'
    <2>1. /\ screen' \in [place : {"list", "dialog", "done", "settings"}, form : Register!Form,
                       busy : BOOLEAN, listed : BOOLEAN, error : BOOLEAN]
          /\ screen'.form.kind = screen.form.kind
      BY <1>4 DEF Register!TypeCredentials, Register!Form
    <2> QED BY <1>4, <2>1
            DEF Register!TypeCredentials, Register!Typing, Register!LatestTokenIsUsed,
                Register!ClosedMeansRegistered
  <1>5. CASE Register!ToggleSync
    <2>1. /\ screen' \in [place : {"list", "dialog", "done", "settings"}, form : Register!Form,
                       busy : BOOLEAN, listed : BOOLEAN, error : BOOLEAN]
          /\ screen'.form.kind = screen.form.kind
      BY <1>5 DEF Register!ToggleSync, Register!Form
    <2> QED BY <1>5, <2>1
            DEF Register!ToggleSync, Register!Typing, Register!LatestTokenIsUsed,
                Register!ClosedMeansRegistered
  <1>6. CASE Register!Submit
    <2>1. CASE UNCHANGED <<hub, calls>>
      BY ZenonT(40), <1>6, <2>1
         DEF Register!Submit, Register!Typing, Register!LatestTokenIsUsed,
             Register!ClosedMeansRegistered
    <2>2. CASE /\ hub' = [hub EXCEPT !.saves = @ + 1]
               /\ screen' = [screen EXCEPT !.busy = TRUE, !.error = FALSE]
               /\ calls' = [step |-> "write", form |-> screen.form]
      <3>1. hub' \in [row : Register!Row \cup {None}, given : Register!AnyToken,
                     queued : BOOLEAN, taken : BOOLEAN, saves : 0 .. Bound]
        BY <1>6, <2>2, BoundAssumption DEF Register!Submit
      <3> QED BY <1>6, <2>2, <3>1
              DEF Register!Submit, Register!Typing, Register!LatestTokenIsUsed,
                  Register!ClosedMeansRegistered
    <2> QED BY <1>6, <2>1, <2>2 DEF Register!Submit
  <1>7. CASE Register!NameTaken
    BY <1>7 DEF Register!NameTaken, Register!LatestTokenIsUsed, Register!ClosedMeansRegistered
  <1>8. CASE Register!Write
    <2>1. CASE calls' = [calls EXCEPT !.step = "failed"] /\ UNCHANGED hub
      BY <1>8, <2>1
         DEF Register!Write, Register!LatestTokenIsUsed, Register!ClosedMeansRegistered
    <2>2. CASE /\ Register!Accepted
               /\ hub' = [hub EXCEPT !.row = Register!Stored(Register!Payload(calls.form)),
                                     !.given = Register!Or(calls.form.token, @)]
               /\ \E step \in {IF calls.form.sync THEN "sync" ELSE "load", "failed"} :
                    calls' = [calls EXCEPT !.step = step]
      <3>1. hub.row # None => calls.form.kind = hub.row.kind
        BY <1>8, <2>2 DEF Register!Write, Register!Accepted, Register!Creating
      <3>2. calls.form \in Register!Form
        OBVIOUS
      <3> DEFINE new == Register!Stored(Register!Payload(calls.form))
      <3>3. /\ new \in Register!Row /\ new # None
            /\ new.kind = calls.form.kind
            /\ Register!UsedToken(new) = Register!Or(calls.form.token, hub.given)
        BY <3>1, <3>2, StoredUses, RowAssumption
      <3>4. Register!Or(calls.form.token, hub.given) \in Register!AnyToken
        BY <3>2 DEF Register!Or, Register!Form, Register!AnyToken
      <3>5. /\ hub'.row = new /\ hub'.given = Register!Or(calls.form.token, hub.given)
            /\ hub' \in [row : Register!Row \cup {None}, given : Register!AnyToken,
                         queued : BOOLEAN, taken : BOOLEAN, saves : 0 .. Bound]
            /\ hub'.queued = hub.queued
        BY <2>2, <3>3, <3>4
      <3>6. Register!LatestTokenIsUsed'
        BY <3>3, <3>5 DEF Register!LatestTokenIsUsed, Register!UsedToken, Register!Or
      <3>7. /\ screen' = screen /\ calls.step = "write"
            /\ calls' \in [step : {"none", "write", "sync", "load", "done", "failed"},
                           form : Register!Form]
            /\ calls'.form = calls.form
            /\ calls'.step \in {IF calls.form.sync THEN "sync" ELSE "load", "failed"}
        BY <1>8, <2>2 DEF Register!Write
      <3> HIDE DEF new
      <3> QED BY <3>3, <3>5, <3>6, <3>7 DEF Register!ClosedMeansRegistered
    <2> QED BY <1>8, <2>1, <2>2 DEF Register!Write
  <1>9. CASE Register!QueueSync \/ Register!Load
    BY ZenonT(40), <1>9
       DEF Register!QueueSync, Register!Load, Register!LatestTokenIsUsed,
           Register!ClosedMeansRegistered
  <1>10. CASE Register!Finish
    <2>1. hub.row # None => Register!InitialForm(hub.row) \in Register!Form
             /\ Register!InitialForm(hub.row).kind = hub.row.kind
      BY <1>0 DEF Register!InitialForm, Register!Row, Register!Form
    <2>2. [Register!BlankForm EXCEPT !.sync = calls.form.sync] \in Register!Form
      BY <1>0 DEF Register!Form
    <2> QED BY ZenonT(40), <1>10, <1>0, <2>1, <2>2
            DEF Register!Finish, Register!Creating, Register!LatestTokenIsUsed, Register!ClosedMeansRegistered,
                Register!Form
  <1> QED BY <1>1, <1>2, <1>3, <1>4, <1>5, <1>6, <1>7, <1>8, <1>9, <1>10
          DEF Register!RegistrationNext, Register!RegistrationProceed

-----------------------------------------------------------------------------
(* Health.  What a row tells is tied to the snapshots that it was judged by, *)
(* and the judgement to the findings, through what an average can be.        *)

HealthRow == [status : {"healthy", "warning", "critical", "unknown"}, score : 0 .. 100,
              error : {"none", "blank", "text"}]

\* A quotient of two numbers, in the cases of an average of at most four.
LEMMA Average ==
  ASSUME NEW n \in 1 .. 4, NEW sum \in Nat, NEW low \in {0, 70}, NEW high \in Nat,
         low * n <= sum, sum <= high * n
  PROVE  (sum \div n) \in low .. high
  <1>1. CASE n = 1
    BY <1>1
  <1>2. CASE n = 2
    BY <1>2
  <1>3. CASE n = 3
    BY <1>3
  <1>4. CASE n = 4
    BY <1>4
  <1> QED BY <1>1, <1>2, <1>3, <1>4

LEMMA FewServices ==
  ASSUME NEW kind \in {"aap", "orchestrator"}
  PROVE  IsFiniteSet(Health!ServicesOf(kind)) /\ Cardinality(Health!ServicesOf(kind)) \in 1 .. 4
  <1>1. IsFiniteSet({"orchestrator"}) /\ Cardinality({"orchestrator"}) = 1
    BY FS_Singleton
  <1>2. IsFiniteSet({"gateway"}) /\ Cardinality({"gateway"}) = 1
    BY FS_Singleton
  <1>3. IsFiniteSet({"gateway"} \cup {"controller"}) /\ Cardinality({"gateway"} \cup {"controller"}) = 2
    BY <1>2, FS_AddElement
  <1>4. /\ IsFiniteSet({"gateway"} \cup {"controller"} \cup {"eda"})
        /\ Cardinality({"gateway"} \cup {"controller"} \cup {"eda"}) = 3
    BY <1>3, FS_AddElement
  <1>5. /\ IsFiniteSet({"gateway"} \cup {"controller"} \cup {"eda"} \cup {"hub"})
        /\ Cardinality({"gateway"} \cup {"controller"} \cup {"eda"} \cup {"hub"}) = 4
    BY <1>4, FS_AddElement
  <1>6. {"gateway", "controller", "eda", "hub"} = {"gateway"} \cup {"controller"} \cup {"eda"} \cup {"hub"}
    OBVIOUS
  <1> QED BY <1>1, <1>5, <1>6 DEF Health!ServicesOf

Service == {"gateway", "controller", "eda", "hub", "orchestrator"}

LEMMA CollectionsByService ==
  ASSUME NEW kind \in {"aap", "orchestrator"}, NEW snapshots \in Health!Collections(kind)
  PROVE  /\ DOMAIN snapshots = Health!ServicesOf(kind)
         /\ snapshots = [s \in Health!ServicesOf(kind) |-> snapshots[s]]
         /\ \A s \in DOMAIN snapshots : s \in Service /\ snapshots[s] \in Health!Outcomes(s)
  <1>1. CASE kind = "orchestrator"
    BY <1>1 DEF Health!Collections, Health!ServicesOf, Service
  <1>2. CASE kind = "aap"
    <2>1. PICK o \in [gateway : Health!Outcomes("gateway"), controller : Health!Outcomes("controller"),
                      eda : Health!Outcomes("eda"), hub : Health!Outcomes("hub")] :
            snapshots = [s \in Health!ServicesOf(kind) |-> o[s]]
      BY <1>2 DEF Health!Collections
    <2> QED BY <1>2, <2>1 DEF Health!ServicesOf, Service
  <1> QED BY <1>1, <1>2

\* The rules of the pages are those of the collector, service by service.
LEMMA WarningIsExplained ==
  ASSUME NEW service \in Service, NEW o \in Health!Outcomes(service)
  PROVE  /\ o \in Health!Snapshot
         /\ o.health = "warning" => Health!Explain(service, o) \in {{"failures"}, {"empty"}, {"attention"}}
         /\ o.health = "critical" => Health!Explain(service, o) = {"unavailable"}
  <1>1. CASE o \in {Health!Absent, Health!Unavailable}
    BY <1>1 DEF Health!Absent, Health!Unavailable, Health!Snapshot, Health!Explain
  <1>2. ASSUME NEW c \in Health!Snapshot, o = Health!Answer(service, c)
        PROVE  /\ o \in Health!Snapshot
               /\ o.failed = c.failed /\ o.broken = c.broken /\ o.items = c.items
               /\ o.health = IF Health!Reasons(service, c) = {} THEN "healthy" ELSE "warning"
    BY <1>2 DEF Health!Answer, Health!Snapshot
  <1>3. ASSUME NEW c \in Health!Snapshot, o = Health!Answer(service, c), o.health = "warning"
        PROVE  Health!Explain(service, o) \in {{"failures"}, {"empty"}, {"attention"}}
    <2>1. Health!Reasons(service, c) # {}
      BY <1>2, <1>3
    <2>2. \/ service = "controller" /\ (o.failed >= 5 \/ o.broken > 0)
          \/ service \in {"eda", "hub"} /\ o.items = 0
          \/ service = "orchestrator" /\ (o.failed > 0 \/ o.broken > 0 \/ o.items = 0)
      BY <2>1, <1>2, <1>3 DEF Health!Reasons
    <2> QED BY <2>2, <1>3 DEF Health!Explain, Service
  <1>4. ASSUME o \notin {Health!Absent, Health!Unavailable}
        PROVE  \E c \in Health!Snapshot : o = Health!Answer(service, c)
    BY <1>4 DEF Health!Outcomes, Health!Snapshot
  <1>5. ASSUME o.health = "healthy"
        PROVE  Health!Explain(service, o) = {}
    BY <1>5 DEF Health!Explain
  <1>6. CASE o \notin {Health!Absent, Health!Unavailable}
    <2>1. PICK c \in Health!Snapshot : o = Health!Answer(service, c)
      BY <1>4, <1>6
    <2> QED BY <2>1, <1>2, <1>3, <1>5
  <1> QED BY <1>1, <1>6

LEMMA SameCardinality == \A S : Health!Cardinality(S) = Cardinality(S)
  BY DEF Cardinality, Health!Cardinality

Having(snapshots, health) == {s \in DOMAIN snapshots : snapshots[s].health = health}

LEMMA FitsFour ==
  ASSUME NEW i \in Nat, NEW j \in Nat, NEW k \in Nat, NEW n \in 1 .. 4, i + j + k <= n
  PROVE  i + j + k \in 0 .. 4
  OBVIOUS

LEMMA Counts ==
  ASSUME NEW kind \in {"aap", "orchestrator"}, NEW snapshots \in Health!Collections(kind)
  PROVE  /\ \A health \in {"healthy", "warning", "critical"} :
              /\ Health!Rated(snapshots, health) \in Nat
              /\ Health!Rated(snapshots, health) = 0
                   <=> \A s \in DOMAIN snapshots : snapshots[s].health # health
         /\ Health!Rated(snapshots, "healthy") + Health!Rated(snapshots, "warning")
               + Health!Rated(snapshots, "critical") \in 0 .. 4
  <1> DEFINE h == Having(snapshots, "healthy")
             w == Having(snapshots, "warning")
             c == Having(snapshots, "critical")
  <1>0. Cardinality({}) = 0
    BY FS_EmptySet
  <1>1. IsFiniteSet(DOMAIN snapshots) /\ Cardinality(DOMAIN snapshots) \in 1 .. 4
    BY FewServices, CollectionsByService
  <1>2. \A health : /\ IsFiniteSet(Having(snapshots, health))
                    /\ Cardinality(Having(snapshots, health)) \in Nat
                    /\ Health!Rated(snapshots, health) = Cardinality(Having(snapshots, health))
    <2> TAKE health
    <2>1. Having(snapshots, health) \in SUBSET DOMAIN snapshots
      BY DEF Having
    <2>2. IsFiniteSet(Having(snapshots, health))
      BY <2>1, <1>1, FS_Subset
    <2>3. Cardinality(Having(snapshots, health)) \in Nat
      BY <2>2, FS_CardinalityType
    <2>4. Health!Rated(snapshots, health) = Cardinality(Having(snapshots, health))
      BY SameCardinality DEF Having, Health!Rated
    <2> QED BY <2>2, <2>3, <2>4
  <1>3. \A health \in {"healthy", "warning", "critical"} :
          Health!Rated(snapshots, health) = 0 <=> \A s \in DOMAIN snapshots : snapshots[s].health # health
    <2> TAKE health \in {"healthy", "warning", "critical"}
    <2>1. Cardinality(Having(snapshots, health)) = 0 <=> Having(snapshots, health) = {}
      BY <1>2, FS_EmptySet
    <2> QED BY <2>1, <1>2 DEF Having
  <1>4. /\ IsFiniteSet(h \cup w) /\ Cardinality(h \cup w) = Cardinality(h) + Cardinality(w)
    <2>1. h \cap w = {}
      BY DEF Having
    <2>0. Cardinality(h \cap w) = 0
      BY ONLY <2>1, <1>0, Zenon
    <2>2. IsFiniteSet(h) /\ IsFiniteSet(w) /\ Cardinality(h) \in Nat /\ Cardinality(w) \in Nat
      BY <1>2
    <2> HIDE DEF h, w
    <2>3. /\ IsFiniteSet(h \cup w)
          /\ Cardinality(h \cup w) = Cardinality(h) + Cardinality(w) - Cardinality(h \cap w)
      BY <2>2, FS_Union
    <2> QED BY <2>0, <2>2, <2>3
  <1>5. /\ IsFiniteSet((h \cup w) \cup c)
        /\ Cardinality((h \cup w) \cup c) = Cardinality(h) + Cardinality(w) + Cardinality(c)
    <2>1. (h \cup w) \cap c = {}
      BY DEF Having
    <2>0. Cardinality((h \cup w) \cap c) = 0
      BY ONLY <2>1, <1>0, Zenon
    <2>2. IsFiniteSet(c) /\ Cardinality(h) \in Nat /\ Cardinality(w) \in Nat /\ Cardinality(c) \in Nat
      BY <1>2
    <2> HIDE DEF h, w, c
    <2>3. /\ IsFiniteSet((h \cup w) \cup c)
          /\ Cardinality((h \cup w) \cup c)
               = Cardinality(h \cup w) + Cardinality(c) - Cardinality((h \cup w) \cap c)
      BY <2>2, <1>4, FS_Union
    <2> QED BY <2>0, <2>2, <2>3, <1>4
  <1>6. Cardinality((h \cup w) \cup c) <= Cardinality(DOMAIN snapshots)
    <2>1. (h \cup w) \cup c \in SUBSET DOMAIN snapshots
      BY DEF Having
    <2> HIDE DEF h, w, c
    <2> QED BY <2>1, <1>1, FS_Subset, ZenonT(40)
  <1>7. Cardinality(h) + Cardinality(w) + Cardinality(c) \in 0 .. 4
    <2>1. Cardinality(h) \in Nat /\ Cardinality(w) \in Nat /\ Cardinality(c) \in Nat
      BY <1>2
    <2>2. Cardinality(h) + Cardinality(w) + Cardinality(c) <= Cardinality(DOMAIN snapshots)
      BY <1>5, <1>6, ZenonT(40)
    <2> HIDE DEF h, w, c
    <2> QED BY <2>1, <2>2, <1>1, FitsFour, ZenonT(40)
  <1>8. /\ Health!Rated(snapshots, "healthy") = Cardinality(h)
        /\ Health!Rated(snapshots, "warning") = Cardinality(w)
        /\ Health!Rated(snapshots, "critical") = Cardinality(c)
    BY <1>2
  <1>9. Health!Rated(snapshots, "healthy") + Health!Rated(snapshots, "warning")
          + Health!Rated(snapshots, "critical") \in 0 .. 4
    <2> HIDE DEF h, w, c
    <2> QED BY ONLY <1>7, <1>8
  <1>10. ASSUME NEW health \in {"healthy", "warning", "critical"}
         PROVE  Health!Rated(snapshots, health) \in Nat
    BY <1>2
  <1> QED BY <1>3, <1>9, <1>10

\* What a score says of the services it is the average of.
LEMMA ScoreTells ==
  ASSUME NEW kind \in {"aap", "orchestrator"}, NEW snapshots \in Health!Collections(kind)
  PROVE  /\ Health!Score(snapshots) \in 0 .. 100
         /\ (\A s \in DOMAIN snapshots : snapshots[s].health = "not_configured")
              \/ (\E s \in DOMAIN snapshots : snapshots[s].health = "critical")
              \/ Health!Score(snapshots) >= 70
         /\ (\A s \in DOMAIN snapshots : snapshots[s].health = "not_configured")
              \/ (\E s \in DOMAIN snapshots : snapshots[s].health \in {"warning", "critical"})
              \/ Health!Score(snapshots) = 100
  <1> DEFINE h == Health!Rated(snapshots, "healthy")
             w == Health!Rated(snapshots, "warning")
             c == Health!Rated(snapshots, "critical")
             n == h + w + c
             sum == 100 * h + 70 * w + 35 * c
  <1>1. h \in Nat /\ w \in Nat /\ c \in Nat /\ n \in 0 .. 4
    BY Counts
  <1>2. \A s \in DOMAIN snapshots :
          snapshots[s].health \in {"healthy", "warning", "critical", "not_configured"}
    BY CollectionsByService, WarningIsExplained DEF Health!Snapshot
  <1>3. n = 0 <=> \A s \in DOMAIN snapshots : snapshots[s].health = "not_configured"
    <2>1. n = 0 <=> h = 0 /\ w = 0 /\ c = 0
      BY <1>1
    <2>2. /\ h = 0 <=> \A s \in DOMAIN snapshots : snapshots[s].health # "healthy"
          /\ w = 0 <=> \A s \in DOMAIN snapshots : snapshots[s].health # "warning"
          /\ c = 0 <=> \A s \in DOMAIN snapshots : snapshots[s].health # "critical"
      BY Counts
    <2> QED BY <2>1, <2>2, <1>2
  <1>4. Health!Score(snapshots) = IF n = 0 THEN 0 ELSE sum \div n
    BY DEF Health!Score
  <1>5. CASE n = 0
    BY <1>3, <1>4, <1>5
  <1>6. CASE n # 0
    <2>1. sum \in Nat /\ n \in 1 .. 4 /\ sum <= 100 * n /\ 0 * n <= sum
      BY <1>1, <1>6
    <2> HIDE DEF h, w, c, n, sum
    <2>2. Health!Score(snapshots) \in 0 .. 100
      BY <2>1, <1>4, Average
    <2>3. c = 0 => Health!Score(snapshots) \in 70 .. 100
      <3>1. c = 0 => 70 * n <= sum
        BY <1>1 DEF n, sum
      <3> QED BY <2>1, <3>1, <1>4, Average
    <2>4. c = 0 /\ w = 0 => Health!Score(snapshots) = 100
      <3>1. c = 0 /\ w = 0 => sum = 100 * n
        BY <1>1 DEF n, sum
      <3>2. c = 0 /\ w = 0 => Health!Score(snapshots) = (100 * n) \div n
        BY <3>1, <2>1, <1>4
      <3>3. (100 * n) \div n = 100
        BY <2>1
      <3> QED BY <3>2, <3>3
    <2> QED BY <2>2, <2>3, <2>4, Counts DEF w, c
  <1> QED BY <1>5, <1>6

LEMMA JudgedTells ==
  ASSUME NEW kind \in {"aap", "orchestrator"}, NEW snapshots \in Health!Collections(kind)
  PROVE  /\ Health!Judged(snapshots) \in HealthRow
         /\ Health!Judged(snapshots).status \in {"warning", "critical"} =>
              \E s \in DOMAIN snapshots : snapshots[s].health \in {"warning", "critical"}
         /\ (\/ Health!Judged(snapshots).status = "critical"
             \/ Health!Judged(snapshots).score < 60 /\ Health!Judged(snapshots).status # "unknown")
             => \E s \in DOMAIN snapshots : snapshots[s].health = "critical"
  BY ScoreTells DEF Health!Judged, Health!Status, HealthRow

Collected == Health!Collections("aap") \cup Health!Collections("orchestrator")

\* A row tells of a sync that failed, or of the snapshots that it was judged by.
Tells(row, snapshots) == row.error # "none" \/ row = Health!Judged(snapshots)

HealthInv ==
  /\ hub \in [kind : {"aap", "orchestrator"}, row : HealthRow, snapshots : Collected, syncs : 0 .. Bound]
  /\ screen \in [state : {"loading", "ready", "error"}, row : HealthRow, snapshots : Collected]
  /\ calls \in [step : {"asked", "rows", "done"}, row : HealthRow, whole : BOOLEAN]
  /\ {hub.snapshots, screen.snapshots} \subseteq Health!Collections(hub.kind)
  /\ Tells(hub.row, hub.snapshots)
  /\ calls.step = "rows" /\ calls.whole => calls.row = hub.row
  /\ Health!Shown => Tells(screen.row, screen.snapshots)

LEMMA NothingCollected ==
  ASSUME NEW kind \in {"aap", "orchestrator"}
  PROVE  [s \in Health!ServicesOf(kind) |-> Health!Absent] \in Health!Collections(kind)
  <1>1. \A service : Health!Absent \in Health!Outcomes(service)
    BY DEF Health!Outcomes
  <1>2. CASE kind = "orchestrator"
    BY <1>1, <1>2 DEF Health!Collections, Health!ServicesOf
  <1>3. CASE kind = "aap"
    <2> DEFINE o == [gateway |-> Health!Absent, controller |-> Health!Absent,
                     eda |-> Health!Absent, hub |-> Health!Absent]
    <2>1. o \in [gateway : Health!Outcomes("gateway"), controller : Health!Outcomes("controller"),
                 eda : Health!Outcomes("eda"), hub : Health!Outcomes("hub")]
      BY <1>1
    <2>2. [s \in Health!ServicesOf(kind) |-> Health!Absent] = [s \in Health!ServicesOf(kind) |-> o[s]]
      BY <1>3 DEF Health!ServicesOf
    <2> QED BY <1>3, <2>1, <2>2 DEF Health!Collections
  <1> QED BY <1>2, <1>3

LEMMA HealthStarts == Health!HealthInit => HealthInv
  <1> SUFFICES ASSUME Health!HealthInit PROVE HealthInv
    OBVIOUS
  <1>1. PICK kind \in {"aap", "orchestrator"} :
          LET none == [s \in Health!ServicesOf(kind) |-> Health!Absent] IN
          /\ hub = [kind |-> kind, row |-> Health!NewRow, snapshots |-> none, syncs |-> 0]
          /\ screen = [state |-> "loading", row |-> Health!NewRow, snapshots |-> none]
          /\ calls = [step |-> "asked", row |-> Health!NewRow, whole |-> TRUE]
    BY DEF Health!HealthInit
  <1> DEFINE none == [s \in Health!ServicesOf(kind) |-> Health!Absent]
  <1>2. none \in Health!Collections(kind) /\ none \in Collected
    BY NothingCollected DEF Collected
  <1>3. Health!NewRow \in HealthRow
    BY DEF Health!NewRow, HealthRow
  <1>4. Health!Judged(none) = Health!NewRow
    <2>1. \A s \in DOMAIN none : none[s].health = "not_configured"
      BY DEF Health!Absent
    <2>2. Health!Rated(none, "healthy") = 0 /\ Health!Rated(none, "warning") = 0
            /\ Health!Rated(none, "critical") = 0
      BY <1>2, <2>1, Counts
    <2> HIDE DEF none
    <2>3. Health!Score(none) = 0
      BY <2>2 DEF Health!Score
    <2> QED BY <2>1, <2>3 DEF Health!Judged, Health!NewRow
  <1> HIDE DEF none
  <1> QED BY <1>1, <1>2, <1>3, <1>4, BoundAssumption DEF HealthInv, Health!Shown, Tells, none

LEMMA HealthKeeps == HealthInv /\ Health!HealthNext => HealthInv'
  <1> SUFFICES ASSUME HealthInv, Health!HealthNext PROVE HealthInv'
    OBVIOUS
  <1> USE DEF HealthInv, Health!Shown
  <1>0. \A syncs \in 0 .. Bound : syncs < Bound => syncs + 1 \in 0 .. Bound
    BY BoundAssumption
  <1>1. CASE Health!SyncCompletes
    <2>1. PICK snapshots \in Health!Collections(hub.kind) :
            hub' = [hub EXCEPT !.snapshots = snapshots, !.row = Health!Judged(snapshots),
                               !.syncs = @ + 1]
      BY <1>1 DEF Health!SyncCompletes
    <2>2. Health!Judged(snapshots) \in HealthRow /\ snapshots \in Collected
      BY JudgedTells DEF Collected
    <2> QED BY <1>0, <1>1, <2>1, <2>2 DEF Health!SyncCompletes, Tells
  <1>2. CASE Health!SyncFails
    <2>1. PICK error \in {"blank", "text"} :
            hub' = [hub EXCEPT !.row.status = "critical", !.row.error = error, !.syncs = @ + 1]
      BY <1>2 DEF Health!SyncFails
    <2>2. [hub.row EXCEPT !.status = "critical", !.error = error] \in HealthRow
      BY DEF HealthRow
    <2>3. /\ hub' = [hub EXCEPT !.row = [hub.row EXCEPT !.status = "critical", !.error = error],
                              !.syncs = @ + 1]
          /\ hub.row \in HealthRow
      BY <2>1
    <2>4. hub'.row \in HealthRow /\ hub'.row.error # "none"
      BY <2>2, <2>3 DEF HealthRow
    <2> QED BY <1>0, <1>2, <2>2, <2>3, <2>4 DEF Health!SyncFails, Tells
  <1>3. CASE Health!ReadRows
    BY <1>3 DEF Health!ReadRows
  <1>4. CASE Health!Arrive
    BY <1>4 DEF Health!Arrive, Tells
  <1>5. CASE Health!ArriveFailed
    BY <1>5 DEF Health!ArriveFailed, Tells
  <1> QED BY <1>1, <1>2, <1>3, <1>4, <1>5 DEF Health!HealthNext

LEMMA HealthTyped == HealthInv => Health!HealthTypeOK
  <1> SUFFICES ASSUME HealthInv PROVE Health!HealthTypeOK
    OBVIOUS
  <1>1. \A snapshots \in Health!Collections(hub.kind) :
          snapshots \in [Health!ServicesOf(hub.kind) -> Health!Snapshot]
    <2> TAKE snapshots \in Health!Collections(hub.kind)
    <2>1. hub.kind \in {"aap", "orchestrator"}
      BY DEF HealthInv
    <2>2. \A s \in DOMAIN snapshots : snapshots[s] \in Health!Snapshot
      BY <2>1, CollectionsByService, WarningIsExplained
    <2> QED BY <2>1, <2>2, CollectionsByService
  <1> QED BY <1>1 DEF HealthInv, Health!HealthTypeOK, HealthRow

\* Of a page that is whole: what its row says is among the findings.
LEMMA FindingsTell == HealthInv => Health!WarningsAreExplained /\ Health!CriticalMeansFailed
  <1> SUFFICES ASSUME HealthInv PROVE Health!WarningsAreExplained /\ Health!CriticalMeansFailed
    OBVIOUS
  <1> DEFINE shown == screen.snapshots
  <1>1. hub.kind \in {"aap", "orchestrator"} /\ shown \in Health!Collections(hub.kind)
    BY DEF HealthInv
  <1>2. \A s \in DOMAIN shown :
          /\ shown[s].health \in {"warning", "critical"} => Health!Explain(s, shown[s]) # {}
          /\ shown[s].health = "critical" => "unavailable" \in Health!Explain(s, shown[s])
    <2> TAKE s \in DOMAIN shown
    <2>1. s \in Service /\ shown[s] \in Health!Outcomes(s)
      BY <1>1, CollectionsByService
    <2> HIDE DEF shown
    <2> QED BY <2>1, WarningIsExplained
  <1>3. \A s \in DOMAIN shown : Health!Explain(s, shown[s]) \subseteq Health!Findings
    BY Zenon DEF Health!Findings
  <1>4. screen.row.error = "text" => "sync" \in Health!Findings
    <2>1. screen.row.error = "text" => "sync" \in {f \in {"sync"} : screen.row.error = "text"}
      OBVIOUS
    <2> QED BY Zenon, <2>1 DEF Health!Findings
  <1>5. screen.row.error \in {"none", "blank", "text"}
    BY DEF HealthInv, HealthRow
  <1>6. Health!Shown => screen.row.error # "none" \/ screen.row = Health!Judged(shown)
    BY DEF HealthInv, Tells
  <1>7. screen.row \in HealthRow
    BY DEF HealthInv
  <1> HIDE DEF shown
  <1>8. Health!WarningsAreExplained
    BY <1>1, <1>2, <1>3, <1>4, <1>5, <1>6, JudgedTells DEF Health!WarningsAreExplained
  <1>9. Health!CriticalMeansFailed
    <2>1. Health!Bar = "danger" => screen.row.score < 60
      BY <1>7 DEF Health!Bar, HealthRow
    <2>2. ASSUME Health!Shown, screen.row.error = "none",
                 \/ screen.row.status = "critical"
                 \/ Health!Bar = "danger" /\ screen.row.status # "unknown"
          PROVE  "unavailable" \in Health!Findings
      <3>1. screen.row = Health!Judged(shown)
        BY <1>6, <2>2
      <3>2. PICK s \in DOMAIN shown : shown[s].health = "critical"
        BY <1>1, <2>1, <2>2, <3>1, JudgedTells
      <3> QED BY <1>2, <1>3, <3>2
    <2> QED BY <2>2 DEF Health!CriticalMeansFailed
  <1> QED BY <1>8, <1>9

-----------------------------------------------------------------------------
(* The console: the page that is open keeps its invariant. *)

ConsoleInv ==
  /\ route = "bell" => BellInv
  /\ route = "jobs" => JobsInv
  /\ route = "policies" => PolicyInv
  /\ route = "settings" => SettingsInv
  /\ route = "login" => SignInInv
  /\ route = "access" => AccessInv
  /\ route = "topology" => TopologyInv
  /\ route = "health" => HealthInv
  /\ route = "register" => RegistrationInv

LEMMA ConsoleStarts == Init => ConsoleInv
  BY BellStarts, JobsStarts, PolicyStarts, SettingsStarts, SignInStarts, AccessStarts, PeopleAssumption,
     TopologyStarts, HealthStarts, RegistrationStarts
     DEF Init, ConsoleInv

LEMMA ConsoleKeeps == ConsoleInv /\ Next => ConsoleInv'
  BY BellKeeps, JobsKeeps, PolicyKeeps, SettingsKeeps, SignInKeeps, AccessKeeps, TopologyKeeps,
     HealthKeeps, RegistrationKeeps
     DEF Next, ConsoleInv

\* A step that changes nothing keeps every part.
LEMMA ConsoleRests == ConsoleInv /\ UNCHANGED consoleVars => ConsoleInv'
  <1> SUFFICES ASSUME ConsoleInv, UNCHANGED consoleVars PROVE ConsoleInv'
    OBVIOUS
  <1> USE DEF consoleVars
  <1>1. BellInv => BellInv'
    BY DEF BellInv, Bell!BellTypeOK
  <1>2. PolicyInv => PolicyInv'
    BY DEF PolicyInv, Policy!Matched, Policy!WrittenOnlyIfAllowed, Grounded
  <1>3. SettingsInv => SettingsInv'
    BY DEF SettingsInv, FitsForm, Settings!SavedPreferencesStay
  <1>4. SignInInv => SignInInv'
    BY DEF SignInInv, TabOK, Fits
  <1>5. AccessInv => AccessInv'
    BY DEF AccessInv, Access!DelegationStaysInside, Access!Founded, Access!GivesSay, Dated, Say
  <1>6. TopologyInv => TopologyInv'
    BY DEF TopologyInv, Topology!TopologyTypeOK, Topology!AddressOpensShown
  <1>7. RegistrationInv => RegistrationInv'
    BY DEF RegistrationInv, Register!RegistrationTypeOK, Register!LatestTokenIsUsed,
           Register!ClosedMeansRegistered
  <1>8. JobsInv => JobsInv'
    BY DEF JobsInv, Jobs!JobsTypeOK, SawEnd
  <1>9. HealthInv => HealthInv'
    BY DEF HealthInv, Health!Shown, Tells
  <1>10. route' = route
    OBVIOUS
  <1> QED BY <1>1, <1>2, <1>3, <1>4, <1>5, <1>6, <1>7, <1>8, <1>9, <1>10 DEF ConsoleInv

LEMMA PagesHold == Spec => []ConsoleInv
  BY ConsoleStarts, ConsoleKeeps, ConsoleRests, PTL DEF Spec

\* Everything that a page and its part of the hub are made of keeps its type.
THEOREM PagesTypeCorrect == Spec => []TypeOK
  <1>1. ConsoleInv => TypeOK
    BY PolicyTyped, SettingsTyped, SignInTyped, AccessTyped, HealthTyped
       DEF ConsoleInv, TypeOK, BellInv, JobsInv, TopologyInv, RegistrationInv
  <1> QED BY <1>1, PagesHold, PTL

\* The bell calls an alert dismissed only when the hub has it acknowledged, in
\* whatever order polls and dismissals come back (components/layout.tsx).
THEOREM DismissalsOnRecord == Spec => []DismissedIsOnRecord
  <1>1. ConsoleInv => DismissedIsOnRecord
    BY DEF ConsoleInv, BellInv, Acked, DismissedIsOnRecord, Bell!DismissedIsOnRecord
  <1> QED BY <1>1, PagesHold, PTL

\* The jobs page calls no job over that still runs: of whatever filter the answer
\* was that came last, and whatever it overtook (pages/jobs.tsx, canCancel).
THEOREM NoRunningJobIsOver ==
  Spec => [](route = "jobs" /\ screen.shown.filter # None /\ hub.job = "running" => screen.shown.active)
  <1>1. ConsoleInv =>
          (route = "jobs" /\ screen.shown.filter # None /\ hub.job = "running" => screen.shown.active)
    BY DEF ConsoleInv, JobsInv
  <1> QED BY <1>1, PagesHold, PTL

\* A policy is evaluated on the estates that its form selected, and written to those
\* that the form allowed, however creations, toggles and pushes overlap.
THEOREM PoliciesKeepToForm == Spec => []KeepsToForm
  <1>1. ConsoleInv => KeepsToForm
    BY SelectionHolds DEF ConsoleInv, KeepsToForm
  <1> QED BY <1>1, PagesHold, PTL

\* An answer to a save of the preferences replaces no edit that it has not seen, and
\* no table lands after a save for the fleet that is older (pages/settings.tsx).
THEOREM SettingsStayCurrent == Spec => []AnswersAreCurrent
  <1>1. ConsoleInv => AnswersAreCurrent
    BY SettingsCurrent DEF ConsoleInv, AnswersAreCurrent
  <1> QED BY <1>1, PagesHold, PTL

\* What an administrator saved is not undone by a process that finds no row and
\* creates it late (services/hub_preferences.py).
THEOREM PreferencesStaySaved == Spec => []SavedPreferencesStay
  <1>1. ConsoleInv => SavedPreferencesStay
    BY DEF ConsoleInv, SettingsInv, SavedPreferencesStay
  <1> QED BY <1>1, PagesHold, PTL

\* Sessions issued after others were ended are valid, those issued before are not,
\* but for the second in which it happened (services/passwords.py).
THEOREM SessionsEndWithAccount == Spec => []SessionsFollowAccount
  <1>1. ConsoleInv => SessionsFollowAccount
    BY SessionsFit DEF ConsoleInv, SessionsFollowAccount
  <1> QED BY <1>1, PagesHold, PTL

\* The check of the mount never takes away a user who has signed in (auth.tsx).
THEOREM UsersStaySignedIn == Spec => OnlyLogOutSignsOut
  <1>1. ConsoleInv /\ [Next]_consoleVars =>
          [route = "login" => SignIn!OnlyByLogOut]_consoleVars
    BY UserStays DEF ConsoleInv, Next
  <1> QED BY <1>1, PagesHold, PTL DEF Spec, OnlyLogOutSignsOut

\* However delegates delegate further, and whatever is removed while their requests
\* are on their way, every role is the end of a chain of grants that the built-in
\* administrator or the creator of the estate began (api/auth_routes.py, routes.py).
THEOREM DelegatesStayInside == Spec => []DelegationStaysInside
  <1>1. ConsoleInv => DelegationStaysInside
    BY DEF ConsoleInv, AccessInv, DelegationStaysInside
  <1> QED BY <1>1, PagesHold, PTL

\* The address opens the topology that is shown, whatever arrives late
\* (pages/topology.tsx).
THEOREM AddressIsShown == Spec => []AddressOpensShown
  <1>1. ConsoleInv => AddressOpensShown
    BY DEF ConsoleInv, TopologyInv, AddressOpensShown
  <1> QED BY <1>1, PagesHold, PTL

\* An estate that warns or is critical has a finding, but for a sync that failed
\* without a text (monitoring.ts, connectors.py, collector.py).
THEOREM FindingsExplain == Spec => []WarningsAreExplained
  <1>1. ConsoleInv => WarningsAreExplained
    BY FindingsTell DEF ConsoleInv, WarningsAreExplained
  <1> QED BY <1>1, PagesHold, PTL

\* Critical, and the red bar, come of a collection or a sync that failed: no number
\* of warnings brings the average of the services so low (connectors.py).
THEOREM CriticalIsFailure == Spec => []CriticalMeansFailed
  <1>1. ConsoleInv => CriticalMeansFailed
    BY FindingsTell DEF ConsoleInv, CriticalMeansFailed
  <1> QED BY <1>1, PagesHold, PTL

\* A sync uses the token that was given last, whichever fields were left blank
\* (api/routes.py, _normalize_environment_product_fields).
THEOREM TokenIsLatest == Spec => []LatestTokenIsUsed
  <1>1. ConsoleInv => LatestTokenIsUsed
    BY DEF ConsoleInv, RegistrationInv, LatestTokenIsUsed
  <1> QED BY <1>1, PagesHold, PTL

\* A dialog that closed by itself has registered its estate, and queued the sync
\* that was asked for (components/environment-form.tsx).
THEOREM DialogsTellTruth == Spec => []ClosedMeansRegistered
  <1>1. ConsoleInv => ClosedMeansRegistered
    BY DEF ConsoleInv, RegistrationInv, ClosedMeansRegistered
  <1> QED BY <1>1, PagesHold, PTL

=============================================================================
