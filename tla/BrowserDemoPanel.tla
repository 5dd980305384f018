-------------------------- MODULE BrowserDemoPanel --------------------------
(***************************************************************************)
(* The browser-only demo                                                   *)
(* (frontend/app/components/BrowserOnlyMockDemoPanel.tsx): the session of  *)
(* BrowserMockSession in a page that is opened and closed, with a copy in  *)
(* localStorage that survives.                                             *)
(*                                                                         *)
(* Two effects keep the copy.  The first loads it when the panel is        *)
(* mounted; the second saves the session whenever that has changed, and    *)
(* when the panel is mounted, which is before what was loaded has become   *)
(* the session.  The page may be closed between any two steps.  One tab is *)
(* open at a time.                                                         *)
(***************************************************************************)
EXTENDS BrowserMockSession, FiniteSets

VARIABLES
  stored,     \* what localStorage holds: {} or one item
  restoring,  \* the session that was loaded and is not shown yet
  phase,      \* of the page
  left        \* the session of the last visit, if it ended in peace

panel == <<stored, restoring, phase, left>>
allVars == <<vars, panel>>

-----------------------------------------------------------------------------

\* What something else has left under the key.
Foreign == [mock_seed |-> "foreign"]

Session ==
  [ current_tick |-> current_tick, selected_symbol |-> selected_symbol,
    latest_signal |-> latest_signal, latest_order |-> latest_order,
    portfolio |-> portfolio, performance |-> performance ]

InitialSession ==
  [ current_tick |-> 0, selected_symbol |-> "TMF", latest_signal |-> None,
    latest_order |-> NoOrder, portfolio |-> EmptyPortfolio,
    performance |-> EmptyPerformance ]

\* setSession
Become(session) ==
  /\ current_tick' = session.current_tick
  /\ selected_symbol' = session.selected_symbol
  /\ latest_signal' = session.latest_signal
  /\ latest_order' = session.latest_order
  /\ portfolio' = session.portfolio
  /\ performance' = session.performance

\* loadStoredSession: nothing unless it is a session.
LoadStoredSession(item) == item \ {Foreign}

\* Mutation: the effect that saves is the first.
LoadedAfterSaving == {InitialSession}

\* What the effect of the mount loads: the copy of the last visit.
Loaded == LoadStoredSession(stored)

PanelInit ==
  /\ Init
  /\ stored \in {{}, {Foreign}}
  /\ restoring = {}
  /\ phase = "closed"
  /\ left = {}

\* The panel is mounted, and its effects run.
Mount ==
  /\ phase = "closed"
  /\ phase' = "mounting"
  /\ restoring' = Loaded
  /\ stored' = {InitialSession}
  /\ UNCHANGED <<vars, left>>

\* What was loaded, if anything, becomes the session.
Restore ==
  /\ phase = "mounting"
  /\ IF restoring = {} THEN phase' = "open" /\ UNCHANGED vars
     ELSE phase' = "changed" /\ \E session \in restoring : Become(session)
  /\ restoring' = {}
  /\ left' = {}
  /\ UNCHANGED stored

\* The effect that saves the session.
Save ==
  /\ phase = "changed"
  /\ phase' = "open"
  /\ stored' = {Session}
  /\ UNCHANGED <<vars, restoring, left>>

\* generateNextTick, runMockStrategy, simulatePaperOrder, from the buttons or
\* the guide.  React runs the effects before it handles the next click.
Act ==
  /\ phase = "open"
  /\ phase' = "changed"
  /\ \/ AdvanceTick
     \/ \E symbol \in BrowserMockSymbol : RunStrategy(symbol)
     \/ \E symbol \in BrowserMockSymbol, quantity \in Quantities :
          SimulateOrder(symbol, quantity)
  /\ UNCHANGED <<stored, restoring, left>>

\* resetDemoSession and clearDemoState
ResetDemo ==
  /\ phase = "open"
  /\ phase' = "changed"
  /\ Reset
  /\ stored' = {}
  /\ UNCHANGED <<restoring, left>>

\* The page is closed or reloaded; the session is gone.
Close ==
  /\ phase # "closed"
  /\ phase' = "closed"
  /\ left' = IF phase = "open" THEN {Session} ELSE {}
  /\ restoring' = {}
  /\ Become(InitialSession)
  /\ UNCHANGED stored

PanelNext ==
  \/ Mount
  \/ Restore
  \/ Save
  \/ Act
  \/ ResetDemo
  \/ Close

PanelSpec == PanelInit /\ [][PanelNext]_allVars

-----------------------------------------------------------------------------

PanelTypeOK ==
  /\ TypeOK
  /\ phase \in {"closed", "mounting", "changed", "open"}
  /\ stored = {Foreign} \/ Cardinality(stored) <= 1
  /\ Cardinality(restoring) <= 1 /\ Cardinality(left) <= 1

(***************************************************************************)
(* "Browser-only mock demo restored from this browser's local state."      *)
(* (frontend/app/i18n.ts:2545): the next visit shows the session that was  *)
(* left, although a mount overwrites its copy before it is shown.          *)
(***************************************************************************)
ComesBack ==
  phase = "mounting" /\ left # {} => restoring = left

=============================================================================
