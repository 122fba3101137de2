-------------------------------- MODULE Console --------------------------------
(***************************************************************************)
(* The web interface (frontend/src): one of its pages is open, chosen by   *)
(* the route, or the bell of the layout that surrounds them, or the sign   *)
(* in that comes before them.  A page keeps its state to itself and starts *)
(* anew whenever it is opened, so that a behaviour is that of one page     *)
(* with the part of the hub that it talks to.  Module EnvironmentDetail    *)
(* has the page of one estate.                                             *)
(*                                                                         *)
(* Calls: in a click's place there is one at a time, requests that nobody  *)
(* waits for may overtake each other.                                      *)
(***************************************************************************)
EXTENDS Naturals

CONSTANTS
  Button,       \* the calls of a page where clicks are made
  Poll,         \* requests of the bell and of the settings
  Listing,      \* requests for the estates of the topology
  Alert, Filter, RuleType, Tagged, Value, Default, Reader, Browser, Env, User,
  Root, Delegate, Home, Failed, Credential,   \* the data of the pages
  None,         \* what is not there, in any of them
  Bound         \* bound on choices, clicks, saves, syncs and ends of sessions

VARIABLES
  route,    \* the page that is open
  hub,      \* its part of the hub
  screen,   \* the state of the page
  calls     \* its calls

consoleVars == <<route, hub, screen, calls>>

Bell     == INSTANCE AlertBell WITH Call <- Poll
Jobs     == INSTANCE JobsPage WITH Call <- Button, NoFilter <- None, MaxChoices <- 1
Policy   == INSTANCE PolicyPage WITH Call <- Button, MaxClicks <- 1
Settings == INSTANCE SettingsPage WITH Call <- Poll, NoValue <- None, MaxWrites <- Bound
SignIn   == INSTANCE SignIn WITH NoSession <- None, SessionTTL <- Bound, MaxNow <- Bound,
                                 MaxRevision <- Bound
Access   == INSTANCE AccessPage WITH Call <- Button, MaxChanges <- Bound
Topology == INSTANCE TopologyPage WITH Call <- Listing, NoView <- None, MaxChoices <- Bound
Health   == INSTANCE FleetHealth WITH MaxSyncs <- Bound
Register == INSTANCE Registration WITH Token <- Credential, NoToken <- None, NoRow <- None, MaxSaves <- Bound

ASSUME ConsoleAssumption ==
  /\ Bound \in Nat
  /\ Default \in Value /\ None \notin Value
  /\ Root \in User /\ Delegate \in User \ {Root} /\ Home \in Env /\ "hub" \notin Env
  /\ None \notin Register!Row

Init ==
  \/ route = "bell" /\ Bell!BellInit
  \/ route = "jobs" /\ Jobs!JobsInit
  \/ route = "policies" /\ Policy!PolicyInit
  \/ route = "settings" /\ Settings!SettingsInit
  \/ route = "login" /\ SignIn!SignInInit
  \/ route = "access" /\ Access!AccessInit
  \/ route = "topology" /\ Topology!TopologyInit
  \/ route = "health" /\ Health!HealthInit
  \/ route = "register" /\ Register!RegistrationInit

Next ==
  /\ \/ route = "bell" /\ Bell!BellNext
     \/ route = "jobs" /\ Jobs!JobsNext
     \/ route = "policies" /\ Policy!PolicyNext
     \/ route = "settings" /\ Settings!SettingsNext
     \/ route = "login" /\ SignIn!SignInNext
     \/ route = "access" /\ Access!AccessNext
     \/ route = "topology" /\ Topology!TopologyNext
     \/ route = "health" /\ Health!HealthNext
     \/ route = "register" /\ Register!RegistrationNext
  /\ UNCHANGED route

Spec == Init /\ [][Next]_consoleVars

----------------------------------------------------------------------------
(* Fairness: every request ends, the intervals of the bell and of the jobs  *)
(* page fire, and of the answers to them some are good.                     *)

On(page, A) == route = page /\ A /\ UNCHANGED route

Interval == On("bell", \E p \in Poll : Bell!StartPoll(p)) \/ On("jobs", Jobs!Tick)

IntervalAnswered ==
  \/ On("bell", \E p \in Poll : Bell!AnswerPoll(p))
  \/ On("jobs", Jobs!Answers(Jobs!Timer) /\ calls'[Jobs!Timer].kind = "poll")

FairSpec ==
  /\ Spec
  /\ WF_consoleVars(Interval)
  /\ SF_consoleVars(IntervalAnswered)
  /\ \A p \in Poll : WF_consoleVars(On("bell", Bell!BellProceed(p)))
  /\ \A a \in Alert : WF_consoleVars(On("bell", Bell!Acknowledge(a) \/ Bell!DismissReturns(a)))
  /\ \A c \in Jobs!Slot : WF_consoleVars(On("jobs", Jobs!JobsProceed(c)))

----------------------------------------------------------------------------
(* Properties: those of the pages, each while its page is open. *)

\* What every page and its part of the hub are made of.
TypeOK ==
  /\ route = "bell" => Bell!BellTypeOK
  /\ route = "jobs" => Jobs!JobsTypeOK
  /\ route = "policies" => Policy!PolicyTypeOK
  /\ route = "settings" => Settings!SettingsTypeOK
  /\ route = "login" => SignIn!SignInTypeOK
  /\ route = "access" => Access!AccessTypeOK
  /\ route = "topology" => Topology!TopologyTypeOK
  /\ route = "health" => Health!HealthTypeOK
  /\ route = "register" => Register!RegistrationTypeOK

\* The bell calls dismissed what the hub has acknowledged, whatever overtakes what.
DismissedIsOnRecord == route = "bell" => Bell!DismissedIsOnRecord

\* In the end the bell lists what the hub has.
BellSettles == <>[](route = "bell" => Bell!ListIsOfHub)

\* In the end the jobs page shows the jobs of its filter, and the approvals that
\* still wait for a decision.
JobsPageSettles == <>[](route = "jobs" => Jobs!TableIsOfFilter /\ Jobs!ListWaits)

\* A policy of the form is evaluated on what the form selected only, and writes to
\* an estate only where the form allowed it.
KeepsToForm == route = "policies" => Policy!KeepsToForm

\* No answer to a save replaces an edit that it has not seen, and after a save for
\* the whole fleet no older table lands.
AnswersAreCurrent == route = "settings" => Settings!AnswersAreCurrent

\* No late creator of the preferences undoes what an administrator saved.
SavedPreferencesStay == route = "settings" => Settings!SavedPreferencesStay

\* A session that was issued after others were ended is valid, one that was issued
\* before is not, but for the second in which it happened.
SessionsFollowAccount == route = "login" => SignIn!SessionsFollowAccount

\* Only Log out takes a user of the pages away.
OnlyLogOutSignsOut == [][route = "login" => SignIn!OnlyByLogOut]_consoleVars

\* Every role is the end of a chain of grants from the built-in administrator or
\* the creator of the estate.
DelegationStaysInside == route = "access" => Access!DelegationStaysInside

\* The address opens the topology that is shown.
AddressOpensShown == route = "topology" => Topology!AddressOpensShown

\* A warning comes with a finding, unless a sync failed without a text,
WarningsAreExplained == route = "health" => Health!WarningsAreExplained

\* and critical means that something could not be collected.
CriticalMeansFailed == route = "health" => Health!CriticalMeansFailed

\* A sync uses the token that was given last.
LatestTokenIsUsed == route = "register" => Register!LatestTokenIsUsed

\* A dialog that closed by itself has registered its estate.
ClosedMeansRegistered == route = "register" => Register!ClosedMeansRegistered
=============================================================================
