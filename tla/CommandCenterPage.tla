------------------------- MODULE CommandCenterPage -------------------------
(***************************************************************************)
(* Rendering the Command Center (frontend/app/page.tsx, Home): 35 fetches  *)
(* in parallel, three more for the newest run, each with a fallback, and   *)
(* the page made of what came (CommandCenterTabs).  While it is rendered   *)
(* the backend may be restarted with other settings, record runs, and find *)
(* its audit chain broken.                                                 *)
(***************************************************************************)
EXTENDS Naturals, Sequences, CommandCenterPanels

CONSTANTS
  Deployments, \* settings the backend may be started with
  Runs,        \* workflow runs that may be recorded
  Watched,     \* sets of resources whose fetches interleave and may fail
  MaxChanges   \* bound on the changes at the backend

ConstantsAssumption ==
  /\ Deployments \subseteq LegalSettings
  /\ NoRun \notin Runs
  /\ MaxChanges \in Nat

VARIABLES
  settings,  \* of the backend
  sound,     \* whether its audit chain verifies
  recorded,  \* the runs on record, newest first
  changes,   \* changes at the backend so far
  watched,   \* the resources whose fetches this load takes one by one
  phase,     \* of the load
  reply,     \* what came of each resource, or Waiting
  since      \* the settings the backend has had since the load began

backend == <<settings, sound, recorded, changes>>
vars == <<backend, watched, phase, reply, since>>

-----------------------------------------------------------------------------

FirstStage ==
  { "health", "roadmap", "contracts", "paperStatus", "executionStatus",
    "persistence", "brokerSimulation", "reliability", "omsReadiness",
    "outbox", "candidates", "auditStatus", "verification", "worm",
    "riskStatus", "crossAccount", "runs", "approvalStatus", "compliance",
    "approvalQueue", "approvalHistory", "releaseBaseline", "environment",
    "datastore", "productionDatastore", "hostedReadiness", "webReadiness",
    "identity", "identityAccess", "authProvider", "securityOperations",
    "sandbox", "session", "tenant", "reviewPacket" }

Events == {"omsEvents", "auditEvents"}

Resource == FirstStage \cup Events \cup {"reports"}

\* backendIssues: what the page reports above its tabs when it is missing.
Reported ==
  Resource \ ( { "productionDatastore", "identity", "identityAccess",
                 "authProvider" } \cup Events )

Waiting == [waiting |-> TRUE]

Came(data) == [available |-> TRUE, data |-> data]

Missing == [available |-> FALSE, data |-> Fallback]

Newest == IF recorded = <<>> THEN NoRun ELSE recorded[1]

Available(p, r) == p[r].available

\* The troubleshooting box above the tabs (backendAvailable).
Banner(p) == \E r \in Reported : ~Available(p, r)

Sections(p) ==
  {HealthCard(p), SafetyCard(p)}
    \cup ReleaseTab(p) \cup PaperTab(p) \cup PacketTab(p) \cup ContractsTab(p)

-----------------------------------------------------------------------------

Init ==
  /\ settings \in Deployments
  /\ sound = TRUE
  /\ recorded \in {<<>>} \cup {<<r>> : r \in Runs}
  /\ changes = 0
  /\ watched \in Watched
  /\ phase = "idle"
  /\ reply = [r \in Resource |-> Waiting]
  /\ since = {}

\* What the backend answers now; of the runs, the newest.
AnswerNow == Answer(settings, sound, Newest)

\* The page is requested.  What is not watched is answered at once.
Request ==
  /\ phase \in {"idle", "shown"}
  /\ phase' = "first"
  /\ reply' =
       [ r \in Resource |->
           IF r \in FirstStage \ watched THEN Came(AnswerNow) ELSE Waiting ]
  /\ since' = {settings}
  /\ UNCHANGED <<backend, watched>>

\* The order of the newest run the page knows.
Selected == reply["runs"].data.run

\* Events and reports of the selected run.
SecondAnswer == Answer(settings, sound, Selected)

Asked(r) ==
  \/ phase = "first" /\ r \in FirstStage
  \/ phase = "events" /\ r \in Events
  \/ phase = "reports" /\ r = "reports"

\* A fetch is answered in time.
Fetch(r) ==
  /\ Asked(r)
  /\ reply[r] = Waiting
  /\ reply' = [reply EXCEPT ![r] =
                 Came(IF phase = "first" THEN AnswerNow ELSE SecondAnswer)]
  /\ UNCHANGED <<backend, watched, phase, since>>

\* It is refused, or takes more than two seconds.
FetchFails(r) ==
  /\ Asked(r)
  /\ r \in watched
  /\ reply[r] = Waiting
  /\ reply' = [reply EXCEPT ![r] = Missing]
  /\ UNCHANGED <<backend, watched, phase, since>>

Done(S) == \A r \in S : reply[r] # Waiting

\* The first stage is over.  Without a run there is nothing more to fetch,
\* and the empty fallbacks count as available.
NextStage ==
  /\ \/ /\ phase = "first" /\ Done(FirstStage)
        /\ Selected # NoRun
        /\ phase' = "events"
        /\ UNCHANGED reply
     \/ /\ phase = "first" /\ Done(FirstStage)
        /\ Selected = NoRun
        /\ phase' = "shown"
        /\ reply' = [ r \in Resource |->
                        IF r \in FirstStage THEN reply[r] ELSE Came(Fallback) ]
     \/ /\ phase = "events" /\ Done(Events)
        /\ phase' = "reports"
        /\ UNCHANGED reply
     \/ /\ phase = "reports" /\ Done({"reports"})
        /\ phase' = "shown"
        /\ UNCHANGED reply
  /\ UNCHANGED <<backend, watched, since>>

\* The backend is restarted with other settings.
Restart ==
  /\ changes < MaxChanges
  /\ settings' \in Deployments \ {settings}
  /\ since' = since \cup {settings'}
  /\ changes' = changes + 1
  /\ UNCHANGED <<sound, recorded, watched, phase, reply>>

\* A run is recorded, and the chain with it may be found broken.
Record ==
  /\ changes < MaxChanges
  /\ \E run \in Runs :
       /\ \A i \in DOMAIN recorded : recorded[i] # run
       /\ recorded' = <<run>> \o recorded
  /\ sound' \in BOOLEAN
  /\ changes' = changes + 1
  /\ UNCHANGED <<settings, watched, phase, reply, since>>

Next ==
  \/ Request
  \/ \E r \in Resource : Fetch(r) \/ FetchFails(r)
  \/ NextStage
  \/ Restart
  \/ Record

(***************************************************************************)
(* Fetches end by themselves after two seconds; the rendering goes on when *)
(* they have.  The backend is not obliged to answer.                       *)
(***************************************************************************)
Fairness ==
  /\ WF_vars(\E r \in Resource : Fetch(r) \/ FetchFails(r))
  /\ WF_vars(NextStage)

Spec == Init /\ [][Next]_vars /\ Fairness

-----------------------------------------------------------------------------

TypeOK ==
  /\ settings \in Deployments
  /\ sound \in BOOLEAN
  /\ changes \in 0..MaxChanges
  /\ watched \in Watched
  /\ phase \in {"idle", "first", "events", "reports", "shown"}
  /\ \A r \in Resource :
       reply[r] # Waiting =>
         /\ reply[r].available \in BOOLEAN
         /\ reply[r].data.settings \in Deployments \cup {PaperSettings}
         /\ reply[r].data.run \in Runs \cup {NoRun}
  /\ since \subseteq Deployments

(***************************************************************************)
(* A page never passes a fallback off as an answer: where a section shows  *)
(* a resource that did not come, it has a notice, or the page reports the  *)
(* backend as unavailable above its tabs.  The list of the issues and the  *)
(* notices of some forty sections have to agree on it.                     *)
(***************************************************************************)
NothingIsSilent ==
  phase = "shown" =>
    \A section \in Sections(reply) : \A r \in section.shows :
      ~Available(reply, r) => section.notice \/ Banner(reply)

Alarms(sections) ==
  \E section \in sections : \E mark \in section.marks : mark.tone = "danger"

(***************************************************************************)
(* A backend that trades live is not shown as paper: if live trading was   *)
(* enabled during the whole load, the page has a red mark in the tab that  *)
(* is open, whichever of the two it is, or says that the backend is not    *)
(* available.                                                              *)
(***************************************************************************)
LiveIsAlarming ==
  phase = "shown" /\ (\A s \in since : s.live) =>
    \/ Banner(reply)
    \/ /\ Alarms({SafetyCard(reply)})
       /\ Alarms(ReleaseTab(reply))
       /\ Alarms(PaperTab(reply))

=============================================================================
