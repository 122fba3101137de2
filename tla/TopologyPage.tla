----------------------------- MODULE TopologyPage -----------------------------
(***************************************************************************)
(* TopologyPage (frontend/src/pages/topology.tsx): the topology of the     *)
(* fleet or of one estate, chosen in a select and written to the query of  *)
(* the address.  Three effects follow each other: one asks for the estates *)
(* whenever the query changes and, when they arrive, selects what the      *)
(* query asked for when it was started; one writes the selection to the    *)
(* query; one loads the topology of the selection, and aborts the one      *)
(* before.  Nothing aborts a request for the estates.                      *)
(***************************************************************************)
EXTENDS Integers

CONSTANTS
  Env,          \* registered estates
  Call,         \* requests for the estates that may be outstanding
  NoView,       \* no query, no topology, no request
  MaxChoices    \* bound on the user's choices

VARIABLES
  hub,      \* the estates that are still registered
  screen,   \* the state of the component, and its query
  calls     \* the requests under way

topologyVars == <<hub, screen, calls>>

Fleet == "fleet"
View == Env \cup {Fleet}

TopologyTypeOK ==
  /\ hub \in SUBSET Env
  /\ screen \in [selected : View, query : View, choices : 0 .. MaxChoices,
                 topology : View \cup {NoView}, listed : BOOLEAN, error : BOOLEAN]
  /\ calls \in [lists : [Call -> [step : {"idle", "asked"}, query : View \cup {NoView}]],
                trees : SUBSET View]

Idle == [step |-> "idle", query |-> NoView]
Asked(query) == [step |-> "asked", query |-> query]

\* The first effects: without a query, a second request follows the first.
TopologyInit ==
  /\ hub = Env
  /\ \E query \in View \cup {NoView}, c, d \in Call :
       LET selected == IF query = NoView THEN Fleet ELSE query IN
       /\ c # d
       /\ screen = [selected |-> selected, query |-> selected, choices |-> 0,
                    topology |-> NoView, listed |-> FALSE, error |-> FALSE]
       /\ calls = [lists |-> [x \in Call |-> IF x = c THEN Asked(query)
                                             ELSE IF x = d /\ query = NoView THEN Asked(Fleet)
                                             ELSE Idle],
                   trees |-> {selected}]

----------------------------------------------------------------------------
(* The effects that a change of the selection starts. *)

\* Mutant: the effect has no cleanup.
LoadTopologyBesides(v) == calls.trees \cup {v}

\* The load of a topology, after the cleanup of the one before.
LoadTopology(v) == {v}

\* The request for the estates that follows the new query is at c.
Selects(c, v, s) ==
  /\ screen' = [s EXCEPT !.selected = v, !.query = v,
                         !.topology = IF v = screen.selected THEN @ ELSE NoView]
  /\ calls' = [lists |-> [calls.lists EXCEPT ![c] = IF v = screen.query THEN Idle ELSE Asked(v)],
               trees |-> IF v = screen.selected THEN calls.trees ELSE LoadTopology(v)]

\* The select; after an error there is none until there is a topology.
Choose(c, v) ==
  /\ screen.listed
  /\ screen.error => screen.topology # NoView
  /\ screen.choices < MaxChoices
  /\ v # screen.selected
  /\ calls.lists[c] = Idle
  /\ Selects(c, v, [screen EXCEPT !.choices = @ + 1])
  /\ UNCHANGED hub

\* Mutant: what the query asks for is selected unseen.
RequestedUnseen(q, current) == q

\* The estates arrive for the query q: selected is what q asks for, or stays.
Requested(q, current) ==
  IF q \in hub \cup {Fleet} THEN q
  ELSE IF current \in hub THEN current ELSE Fleet

ListArrives(c) ==
  /\ calls.lists[c].step = "asked"
  /\ Selects(c, Requested(calls.lists[c].query, screen.selected),
             [screen EXCEPT !.listed = hub # {}])
  /\ UNCHANGED hub

ListFails(c) ==
  /\ calls.lists[c].step = "asked"
  /\ screen' = [screen EXCEPT !.error = TRUE]
  /\ calls' = [calls EXCEPT !.lists[c] = Idle]
  /\ UNCHANGED hub

\* No answer takes an error away.
TopologyArrives(v) ==
  /\ v \in calls.trees
  /\ v \in hub \cup {Fleet}
  /\ screen' = [screen EXCEPT !.topology = v]
  /\ calls' = [calls EXCEPT !.trees = @ \ {v}]
  /\ UNCHANGED hub

TopologyFails(v) ==
  /\ v \in calls.trees
  /\ screen' = [screen EXCEPT !.error = TRUE]
  /\ calls' = [calls EXCEPT !.trees = @ \ {v}]
  /\ UNCHANGED hub

Removed(e) ==
  /\ e \in hub
  /\ hub' = hub \ {e}
  /\ UNCHANGED <<screen, calls>>

TopologyNext ==
  \/ \E c \in Call : ListArrives(c) \/ ListFails(c) \/ \E v \in View : Choose(c, v)
  \/ \E v \in View : TopologyArrives(v) \/ TopologyFails(v)
  \/ \E e \in Env : Removed(e)

TopologySpec == TopologyInit /\ [][TopologyNext]_topologyVars

----------------------------------------------------------------------------
(* Properties. *)

\* The address always opens what the page shows, and a late topology of an
\* earlier selection is never shown for the present one.
AddressOpensShown ==
  /\ screen.query = screen.selected
  /\ screen.topology \in {NoView, screen.selected}
=============================================================================
