----------------------------- MODULE SettingsPage -----------------------------
(***************************************************************************)
(* ApplicationSettingsPage (frontend/src/pages/settings.tsx): the form of  *)
(* the hub preferences and, below it, the table of collection intervals,   *)
(* over the one row of hub_preferences, which whoever reads it first       *)
(* creates (services/hub_preferences.py).                                  *)
(*                                                                         *)
(* A preference is one value, and one estate stands for the fleet; what    *)
(* the table shows of it is how many writes the answer has seen.           *)
(***************************************************************************)
EXTENDS Integers

CONSTANTS
  Call,       \* calls that may be outstanding at one time
  Value,      \* values of the form
  Default,    \* the value of the deployment
  Reader,     \* scheduler and worker, which read the preferences too
  NoValue,    \* no row, and no form, yet
  MaxWrites   \* bound on the writes of the interval

VARIABLES
  hub,      \* the rows, and who is creating the preferences
  screen,   \* the state of the two components
  calls     \* calls[c]: a request of the page

settingsVars == <<hub, screen, calls>>

MaybeValue == Value \cup {NoValue}

SettingsTypeOK ==
  /\ hub \in [row : MaybeValue, saved : MaybeValue, writes : 0 .. MaxWrites,
              creating : SUBSET (Reader \cup Call)]
  /\ screen \in [form : MaybeValue, all : BOOLEAN, busy : BOOLEAN,
                 seen : -1 .. MaxWrites, reported : 0 .. MaxWrites,
                 draft : BOOLEAN, saving : BOOLEAN]
  /\ calls \in [Call -> [kind : {"none", "prefs", "save", "table", "row"},
                         value : MaybeValue, all : BOOLEAN,
                         step : {"asked", "write", "answered", "failed"},
                         writes : 0 .. MaxWrites]]

NoSettingsCall == [kind |-> "none", value |-> NoValue, all |-> FALSE,
                   step |-> "asked", writes |-> 0]

Request(kind) == [NoSettingsCall EXCEPT !.kind = kind]

\* Both components ask when they are mounted.
SettingsInit ==
  /\ hub = [row |-> NoValue, saved |-> NoValue, writes |-> 0, creating |-> {}]
  /\ screen = [form |-> NoValue, all |-> FALSE, busy |-> FALSE, seen |-> -1, reported |-> 0,
               draft |-> FALSE, saving |-> FALSE]
  /\ \E p, t \in Call :
       /\ p # t
       /\ calls = [c \in Call |-> IF c = p THEN Request("prefs")
                                  ELSE IF c = t THEN Request("table") ELSE NoSettingsCall]

----------------------------------------------------------------------------
(* load_hub_preferences, in any process: look, and create what is not there. *)

LookUp(x) ==
  /\ hub.row = NoValue
  /\ x \notin hub.creating
  /\ hub' = [hub EXCEPT !.creating = @ \cup {x}]

\* Mutant: the row is merged, as a session merge would do, and not added.
InsertMerged(x) ==
  /\ x \in hub.creating
  /\ hub' = [hub EXCEPT !.row = Default, !.creating = @ \ {x}]

\* A second insert of the same key fails, and its caller with it.
Insert(x) ==
  /\ x \in hub.creating
  /\ hub' = [hub EXCEPT !.row = IF @ = NoValue THEN Default ELSE @, !.creating = @ \ {x}]

Loses(x) == x \in hub.creating /\ hub.row # NoValue

ReaderReads(r) ==
  /\ LookUp(r) \/ Insert(r)
  /\ UNCHANGED <<screen, calls>>

----------------------------------------------------------------------------
(* The page. *)

Ask(c, call) == calls[c].kind = "none" /\ calls' = [calls EXCEPT ![c] = call]

\* The fields of HubPreferencesForm, and its check box.
Edit(v) ==
  /\ screen.form # NoValue /\ ~screen.busy
  /\ screen' = [screen EXCEPT !.form = v]
  /\ UNCHANGED <<hub, calls>>

CheckAll ==
  /\ screen.form # NoValue /\ ~screen.busy
  /\ screen' = [screen EXCEPT !.all = ~@]
  /\ UNCHANGED <<hub, calls>>

Save(c) ==
  /\ screen.form # NoValue /\ ~screen.busy
  /\ Ask(c, [Request("save") EXCEPT !.value = screen.form, !.all = screen.all])
  /\ screen' = [screen EXCEPT !.busy = TRUE]
  /\ UNCHANGED hub

\* A row of CollectionRefresh: dirty until its save has returned.
EditRow ==
  /\ screen.seen >= 0 /\ ~screen.saving
  /\ screen' = [screen EXCEPT !.draft = TRUE]
  /\ UNCHANGED <<hub, calls>>

SaveRow(c) ==
  /\ screen.draft /\ ~screen.saving
  /\ Ask(c, Request("row"))
  /\ screen' = [screen EXCEPT !.saving = TRUE]
  /\ UNCHANGED hub

----------------------------------------------------------------------------
(* The hub. *)

NeedsRow(c) == calls[c].kind \in {"prefs", "save"} /\ calls[c].step = "asked"

\* The route loads the preferences first, and creates them if it must.
FindRow(c) ==
  /\ NeedsRow(c)
  /\ \/ /\ LookUp(c) \/ (Insert(c) /\ ~Loses(c))
        /\ UNCHANGED calls
     \/ /\ Loses(c) /\ Insert(c)
        /\ calls' = [calls EXCEPT ![c].step = "failed"]
  /\ UNCHANGED screen

ReadPrefs(c) ==
  /\ NeedsRow(c) /\ hub.row # NoValue /\ c \notin hub.creating
  /\ calls' = IF calls[c].kind = "save" THEN [calls EXCEPT ![c].step = "write"]
              ELSE [calls EXCEPT ![c].step = "answered", ![c].value = hub.row]
  /\ UNCHANGED <<hub, screen>>

\* update_hub_preferences: the whole record and, if asked, every estate.
Update(c) ==
  /\ calls[c].step = "write"
  /\ calls[c].all => hub.writes < MaxWrites
  /\ hub' = [hub EXCEPT !.row = calls[c].value, !.saved = calls[c].value,
                        !.writes = IF calls[c].all THEN @ + 1 ELSE @]
  /\ calls' = [calls EXCEPT ![c].step = "answered", ![c].writes = hub'.writes]
  /\ UNCHANGED screen

UpdateRow(c) ==
  /\ calls[c].kind = "row" /\ calls[c].step = "asked"
  /\ hub.writes < MaxWrites
  /\ hub' = [hub EXCEPT !.writes = @ + 1]
  /\ calls' = [calls EXCEPT ![c].step = "answered", ![c].writes = hub'.writes]
  /\ UNCHANGED screen

ReadTable(c) ==
  /\ calls[c].kind = "table" /\ calls[c].step = "asked"
  /\ calls' = [calls EXCEPT ![c].step = "answered", ![c].writes = hub.writes]
  /\ UNCHANGED <<hub, screen>>

Refused(c) ==
  /\ calls[c].kind # "none" /\ calls[c].step \in {"asked", "write"} /\ c \notin hub.creating
  /\ calls' = [calls EXCEPT ![c].step = "failed"]
  /\ UNCHANGED <<hub, screen>>

----------------------------------------------------------------------------
(* Answers. *)

\* Mutant: the effect of the table has no cleanup.
ReloadedBesides(c) == [calls EXCEPT ![c] = Request("table")]

\* onSaved: the table aborts the load it has under way and starts another.
Reloaded(c) == [d \in Call |-> IF d = c THEN Request("table")
                               ELSE IF calls[d].kind = "table" THEN NoSettingsCall
                               ELSE calls[d]]

\* setPrefs(saved), and onSaved in the same turn.
SaveReturns(c) ==
  /\ calls[c].kind = "save" /\ calls[c].step = "answered"
  /\ screen' = [screen EXCEPT !.form = calls[c].value, !.all = FALSE, !.busy = FALSE,
                              !.reported = IF calls[c].all THEN calls[c].writes ELSE @]
  /\ calls' = Reloaded(c)
  /\ UNCHANGED hub

Returns(c) ==
  /\ calls[c].step \in {"answered", "failed"}
  /\ calls[c].kind = "save" => calls[c].step = "failed"
  /\ screen' = [screen EXCEPT
       !.form   = IF calls[c].kind = "prefs" /\ calls[c].step = "answered"
                  THEN calls[c].value ELSE @,
       !.busy   = @ /\ calls[c].kind # "save",
       !.seen   = IF calls[c].kind \in {"table", "row"} /\ calls[c].step = "answered"
                  THEN calls[c].writes ELSE @,
       !.draft  = @ /\ ~(calls[c].kind = "row" /\ calls[c].step = "answered"),
       !.saving = @ /\ calls[c].kind # "row"]
  /\ calls' = [calls EXCEPT ![c] = NoSettingsCall]
  /\ UNCHANGED hub

SettingsProceed(c) ==
  \/ FindRow(c) \/ ReadPrefs(c) \/ Update(c) \/ UpdateRow(c) \/ ReadTable(c) \/ Refused(c)
  \/ SaveReturns(c) \/ Returns(c)

SettingsNext ==
  \/ \E v \in Value : Edit(v)
  \/ CheckAll \/ EditRow
  \/ \E r \in Reader : ReaderReads(r)
  \/ \E c \in Call : Save(c) \/ SaveRow(c) \/ SettingsProceed(c)

SettingsSpec == SettingsInit /\ [][SettingsNext]_settingsVars

----------------------------------------------------------------------------
(* Properties. *)

\* An answer replaces the whole form: no edit may be in it that was not sent.
NoEditIsLost ==
  \A c \in Call :
    calls[c].kind = "save" => screen.form = calls[c].value /\ screen.all = calls[c].all

\* The preferences are created on first use by whoever comes first, and by
\* several at once: what an administrator saved is never undone by a late creator.
SavedPreferencesStay == hub.saved # NoValue => hub.row = hub.saved

\* Once the page has said that every estate uses the new interval, no load lands
\* any more that was answered before.
ReloadIsFresh ==
  \A c \in Call :
    calls[c].kind = "table" /\ calls[c].step = "answered" =>
      calls[c].writes >= screen.reported

\* No answer puts back what the user, or a save, has changed since it was asked for.
AnswersAreCurrent == NoEditIsLost /\ ReloadIsFresh
=============================================================================
